---------------------------- MODULE Spec2Model ----------------------------
(***************************************************************************)
(* Verification model of the stockpulse backend core:                      *)
(*   - Heikin Ashi transform, candle classifier and signal detector        *)
(*     (backend/heikin_ashi_signals.py)                                    *)
(*   - screening scorer and gates (backend/screener_module.py)             *)
(*   - price projector (backend/advanced_scheduler.py)                     *)
(*   - sentiment batch analysis (backend/llm_sentiment_analyzer.py)        *)
(*   - sentiment aggregation and confidence adjustment                     *)
(*     (backend/advanced_scheduler.py)                                     *)
(*   - prediction cycles and loops of the three schedulers                 *)
(*     (backend/signal_prediction_scheduler.py, advanced_scheduler.py,     *)
(*     simple_scheduler.py)                                                *)
(*                                                                         *)
(* Numbers.  Prices are integers.  Heikin Ashi values are exact rationals, *)
(* held as integers in units of 1/Scale.  A float that may be missing      *)
(* (NaN) is a set: {} is NaN and {v} is the value v, so that every         *)
(* comparison with NaN is false, as in IEEE arithmetic.                    *)
(***************************************************************************)
EXTENDS Integers, Sequences, FiniteSets, TLC

VARIABLES
    df,          \* the bar table handed to the signal detector
    ind,         \* what the indicator library returned for df
    analysis,    \* the dictionary returned by analyze_single_stock
    candles,     \* the last two Heikin Ashi rows and the latest raw close
    screen_df,   \* the screener's indicator table (only its latest row matters)
    stock_info,  \* the fundamentals handed to the screener
    score_data,  \* what calculate_screening_score returned
    screening,   \* what screen_single_stock returned
    proj_in,     \* the arguments and noise draws of calculate_advanced_predictions
    predictions, \* what calculate_advanced_predictions returned
    texts,          \* the texts of the analyze_batch call in progress
    task_pc,        \* per text: "ready", "calling", or how its task ended
    task_result,    \* per text: what its task returned to gather
    semaphore,      \* free permits of the call's asyncio.Semaphore
    analysis_cache, \* the analyzer's dictionary: text -> cached signal
    llm_calls,      \* per text: classifier calls made so far
    batch_pc,       \* "idle", "gathering" or "returned"
    llm_parses,     \* whether the classifier's replies parse in this run
    textblob_ok,    \* whether TextBlob works in this process
    returned,       \* the list analyze_batch returned
    tickers,            \* the universe get_active_tickers gave the cycle
    cycle_pc,           \* "idle", "analyzing", "saving", "sleeping", "completed"
    batch_start,        \* the loop variable i of run_prediction_cycle
    batch_predictions,  \* what gather has for the tickers of the batch
    save_idx,           \* position of the save loop in the batch
    signal_predictions, \* rows of the signal_predictions table, in order
    outcomes,           \* per ticker: how its pipeline ended
    writes,             \* per ticker: how its INSERT ended
    scheduler,          \* which scheduler runs: "signal", "advanced" or "simple"
    stocks,             \* the tickers the scheduler is given to work on
    running,            \* the scheduler's running flag
    loop_pc,            \* where the scheduler's loop stands
    cycle_raised,       \* an unexpected exception was raised in the current cycle
    elapsed,            \* seconds the last finished cycle took; -1 before
    sleep_time,         \* seconds of the sleep that follows the cycle; -1 before
    start_gap,          \* seconds between the starts of the last two cycles; -1 before
    cycles_started,     \* cycles started so far
    db_pool_open,       \* the signal scheduler's connection pool is open
    blend_pc,           \* where the sentiment blending stands
    news_fetch_ok,      \* the news fetch of the ticker returns
    news_count,         \* number of news items fetched
    sentiment_signals,  \* the signals the analyzer returned for them
    sentiment_data,     \* the dict analyze_sentiment_for_ticker returns
    technical_confidence, \* confidence of the technical signal, percent
    technical_signal_type,        \* direction of the technical signal
    adjusted_confidence \* what adjust_confidence_with_sentiment returns

sigvars == <<df, ind, analysis, candles>>
scrvars == <<screen_df, stock_info, score_data, screening>>
projvars == <<proj_in, predictions>>
sentvars == <<texts, task_pc, task_result, semaphore, analysis_cache, llm_calls, batch_pc, llm_parses, textblob_ok, returned>>
cycvars == <<tickers, cycle_pc, batch_start, batch_predictions, save_idx, signal_predictions, outcomes, writes, scheduler, stocks>>
loopvars == <<running, loop_pc, cycle_raised, elapsed, sleep_time, start_gap, cycles_started, db_pool_open>>
blendvars == <<blend_pc, news_fetch_ok, news_count, sentiment_signals, sentiment_data, technical_confidence, technical_signal_type, adjusted_confidence>>
vars == <<sigvars, scrvars, projvars, sentvars, cycvars, loopvars, blendvars>>

(***************************************************************************)
(* Bounds                                                                  *)
(***************************************************************************)
MaxBars == 5
MaxTexts == 6
MaxTickers == 6
MaxLoopTickers == 1
MaxCycles == 2
MaxSignals == 3
MaxPrice == 4

(***************************************************************************)
(* Helpers                                                                 *)
(***************************************************************************)
Min2(a, b) == IF a <= b THEN a ELSE b
Max2(a, b) == IF a >= b THEN a ELSE b
Min3(a, b, c) == Min2(a, Min2(b, c))
Max3(a, b, c) == Max2(a, Max2(b, c))
Abs(a) == IF a < 0 THEN -a ELSE a

NaN == {}
Val(v) == {v}
Gt(a, b) == \E x \in a : \E y \in b : x > y
Lt(a, b) == \E x \in a : \E y \in b : x < y
Ge(a, b) == \E x \in a : \E y \in b : x >= y
Le(a, b) == \E x \in a : \E y \in b : x <= y
NotNa(a) == a # {}
FAdd(a, b) == {x + y : x \in a, y \in b}
FSub(a, b) == {x - y : x \in a, y \in b}
FAbs(a) == {Abs(x) : x \in a}

(***************************************************************************)
(* Heikin Ashi transform and candle classifier                             *)
(***************************************************************************)
Scale == 2 ^ (MaxBars + 2)

Bar(o, h, l, c) == [Open |-> o, High |-> h, Low |-> l, Close |-> c]

\* The bar shapes the data source delivers in this model.
BarShapes == { Bar(1, 2, 1, 2), Bar(2, 4, 2, 3), Bar(3, 3, 1, 2), Bar(4, 4, 2, 4) }

\* One row of the Heikin Ashi table, from the raw bar and the row before it
\* (prev is ignored for the first row).  Values are in units of 1/Scale.
HA_Close(bar) ==
    ((bar.Open + bar.High + bar.Low + bar.Close) * Scale) \div 4

HA_Open(bar, first, prev) ==
    IF first
    THEN ((bar.Open + bar.Close) * Scale) \div 2
    ELSE (prev.HA_Open + prev.HA_Close) \div 2

HA_HighWithoutOpen(ha_open, ha_close, bar) == Max2(ha_close, bar.High * Scale)

HA_High(ha_open, ha_close, bar) == Max3(ha_open, ha_close, bar.High * Scale)
HA_Low(ha_open, ha_close, bar) == Min3(ha_open, ha_close, bar.Low * Scale)

HA_Bullish(ha_open, ha_close) == ha_close > ha_open
HA_Bearish(ha_open, ha_close) == ha_close < ha_open

HA_Body_Size(ha_open, ha_close) == Abs(ha_close - ha_open)
HA_Upper_Shadow(ha_open, ha_close, ha_high) == ha_high - Max2(ha_open, ha_close)
HA_Lower_Shadow(ha_open, ha_close, ha_low) == Min2(ha_open, ha_close) - ha_low
HA_Total_Range(ha_high, ha_low) == ha_high - ha_low

HA_Doji(body, range) == 10 * body < range

HA_Strong_Bull(bullish, body, range, upper) ==
    bullish /\ 10 * body > 6 * range /\ 10 * upper < 3 * body

HA_Strong_Bear(bearish, body, range, lower) ==
    bearish /\ 10 * body > 6 * range /\ 10 * lower < 3 * body

HA_HammerAnyUpperShadow(body, upper, lower) == lower > 2 * body

HA_Hammer(body, upper, lower) == lower > 2 * body /\ 2 * upper < body

HA_Shooting_Star(body, upper, lower) == upper > 2 * body /\ 2 * lower < body

HA_Trend_Strength(bullish, bearish, first, prev) ==
    IF first THEN 0
    ELSE IF bullish
         THEN (IF prev.HA_Bullish THEN prev.HA_Trend_Strength + 1 ELSE 1)
    ELSE IF bearish
         THEN (IF prev.HA_Bearish THEN prev.HA_Trend_Strength - 1 ELSE -1)
    ELSE 0

\* The derived columns of a row, once its four Heikin Ashi prices are known.
ClassifiedRow(ha_open, ha_close, ha_high, ha_low, bullish, bearish, body, upper, lower, range, first, prev) ==
    [ HA_Open |-> ha_open,
      HA_Close |-> ha_close,
      HA_High |-> ha_high,
      HA_Low |-> ha_low,
      HA_Bullish |-> bullish,
      HA_Bearish |-> bearish,
      HA_Doji |-> HA_Doji(body, range),
      HA_Body_Size |-> body,
      HA_Upper_Shadow |-> upper,
      HA_Lower_Shadow |-> lower,
      HA_Total_Range |-> range,
      HA_Strong_Bull |-> HA_Strong_Bull(bullish, body, range, upper),
      HA_Strong_Bear |-> HA_Strong_Bear(bearish, body, range, lower),
      HA_Hammer |-> HA_Hammer(body, upper, lower),
      HA_Shooting_Star |-> HA_Shooting_Star(body, upper, lower),
      HA_Trend_Strength |-> HA_Trend_Strength(bullish, bearish, first, prev) ]

PricedRow(ha_open, ha_close, ha_high, ha_low, first, prev) ==
    ClassifiedRow(ha_open, ha_close, ha_high, ha_low,
                  HA_Bullish(ha_open, ha_close),
                  HA_Bearish(ha_open, ha_close),
                  HA_Body_Size(ha_open, ha_close),
                  HA_Upper_Shadow(ha_open, ha_close, ha_high),
                  HA_Lower_Shadow(ha_open, ha_close, ha_low),
                  HA_Total_Range(ha_high, ha_low),
                  first, prev)

OpenCloseRow(ha_open, ha_close, bar, first, prev) ==
    PricedRow(ha_open, ha_close,
              HA_High(ha_open, ha_close, bar),
              HA_Low(ha_open, ha_close, bar),
              first, prev)

HeikinAshiRow(bar, first, prev) ==
    OpenCloseRow(HA_Open(bar, first, prev), HA_Close(bar), bar, first, prev)

\* The table for the first n bars of d, built from the earliest bar forward.
ExtendRows(rows, bar) ==
    Append(rows, HeikinAshiRow(bar, FALSE, rows[Len(rows)]))

RECURSIVE HeikinAshiRows(_, _)
HeikinAshiRows(d, n) ==
    IF n = 0 THEN << >>
    ELSE IF n = 1 THEN << HeikinAshiRow(d[1], TRUE, << >>) >>
    ELSE ExtendRows(HeikinAshiRows(d, n - 1), d[n])

calculate_heikin_ashi(d) == HeikinAshiRows(d, Len(d))

(***************************************************************************)
(* Signal detector                                                         *)
(***************************************************************************)
\* What the indicator library hands back for the table: either the call
\* raises, or it yields the latest RSI, ATR, EMA21 and volume ratio (x10),
\* each possibly NaN.  ema_off is EMA21 minus the latest close.
Indicators ==
    [ raises : {FALSE},
      rsi : {NaN, Val(25), Val(50), Val(70), Val(75)},
      atr : {Val(1)},
      ema_off : {Val(-2), Val(0), Val(2)},
      volume_ratio : {NaN, Val(12), Val(13)} ]
    \cup
    [ raises : {FALSE},
      rsi : {NaN, Val(25), Val(50), Val(70), Val(75)},
      atr : {NaN},
      ema_off : {NaN, Val(2)},
      volume_ratio : {NaN, Val(12), Val(13)} ]
    \cup
    [ raises : {TRUE}, rsi : {NaN}, atr : {NaN}, ema_off : {NaN},
      volume_ratio : {NaN} ]

NoIndicators ==
    [ raises |-> FALSE, rsi |-> NaN, atr |-> NaN, ema_off |-> NaN,
      volume_ratio |-> NaN ]

_get_signal_strength(confidence) ==
    IF confidence >= 80 THEN "VERY_STRONG"
    ELSE IF confidence >= 60 THEN "STRONG"
    ELSE IF confidence >= 40 THEN "MODERATE"
    ELSE IF confidence >= 20 THEN "WEAK"
    ELSE "VERY_WEAK"

ShortTable == [ signal |-> FALSE, confidence |-> 0,
                signal_strength |-> "absent", reasons |-> <<>> ]

SignalThreshold == 40

IsSignalFromWeak(confidence) == confidence >= 20

IsSignal(confidence) == confidence >= SignalThreshold

ReportedConfidence(confidence) == Min2(100, confidence)

\* Lines 167-184 and 259-276: the dictionary a case returns.
SignalTable(confidence, signal_components) ==
    [ signal |-> IsSignal(confidence),
      confidence |-> ReportedConfidence(confidence),
      signal_strength |-> _get_signal_strength(confidence),
      reasons |-> signal_components ]

BullishCase(last, prev, close, x) ==
    LET rsi == x.rsi
        atr == x.atr
        current_price == Val(close)
        ema_21 == FAdd(current_price, x.ema_off)
        price_distance == FAbs(FSub(current_price, ema_21))
        \* 1. candle
        k1 == IF last.HA_Strong_Bull THEN 1
              ELSE IF last.HA_Bullish /\ last.HA_Close > prev.HA_Close THEN 2
              ELSE 0
        c1 == IF k1 = 1 THEN 25 ELSE IF k1 = 2 THEN 15 ELSE 0
        r1 == IF k1 = 1 THEN << "Strong bullish Heikin Ashi candle" >>
              ELSE IF k1 = 2 THEN << "Bullish Heikin Ashi with higher close" >>
              ELSE << >>
        \* 2. streak
        k2 == last.HA_Trend_Strength >= 2
        c2 == IF k2 THEN Min2(20, last.HA_Trend_Strength * 5) ELSE 0
        r2 == IF k2 THEN << "Consecutive bullish momentum" >> ELSE << >>
        \* 3. RSI
        k3 == IF Lt(Val(30), rsi) /\ Lt(rsi, Val(70)) THEN 1
              ELSE IF Gt(rsi, Val(70)) THEN 2
              ELSE IF Lt(rsi, Val(30)) THEN 3
              ELSE 0
        c3 == IF k3 = 1 THEN 15 ELSE IF k3 = 2 THEN -10
              ELSE IF k3 = 3 THEN 10 ELSE 0
        r3 == IF k3 = 1 THEN << "Healthy RSI level" >>
              ELSE IF k3 = 2 THEN << "RSI overbought warning" >>
              ELSE IF k3 = 3 THEN << "RSI oversold opportunity" >>
              ELSE << >>
        \* 4. distance to EMA21
        k4 == IF Le(price_distance, atr) THEN 1
              ELSE IF Gt(current_price, ema_21) THEN 2
              ELSE 0
        c4 == IF k4 = 1 THEN 15 ELSE IF k4 = 2 THEN 10 ELSE 0
        r4 == IF k4 = 1 THEN << "Price near EMA21 support" >>
              ELSE IF k4 = 2 THEN << "Price above EMA21" >>
              ELSE << >>
        \* 5. volume
        k5 == Gt(x.volume_ratio, Val(12))
        c5 == IF k5 THEN 10 ELSE 0
        r5 == IF k5 THEN << "Volume confirmation" >> ELSE << >>
        \* 6. hammer
        k6 == last.HA_Hammer /\ Le(current_price, FAdd(ema_21, atr))
        c6 == IF k6 THEN 20 ELSE 0
        r6 == IF k6 THEN << "Hammer pattern near support" >> ELSE << >>
        \* 7. reversal
        k7 == prev.HA_Bearish /\ last.HA_Bullish /\ last.HA_Close > prev.HA_Close
        c7 == IF k7 THEN 15 ELSE 0
        r7 == IF k7 THEN << "Potential trend reversal" >> ELSE << >>
    IN  SignalTable(c1 + c2 + c3 + c4 + c5 + c6 + c7,
                    r1 \o r2 \o r3 \o r4 \o r5 \o r6 \o r7)

BearishCase(last, prev, close, x) ==
    LET rsi == x.rsi
        atr == x.atr
        current_price == Val(close)
        ema_21 == FAdd(current_price, x.ema_off)
        price_distance == FAbs(FSub(current_price, ema_21))
        k1 == IF last.HA_Strong_Bear THEN 1
              ELSE IF last.HA_Bearish /\ last.HA_Close < prev.HA_Close THEN 2
              ELSE 0
        c1 == IF k1 = 1 THEN 25 ELSE IF k1 = 2 THEN 15 ELSE 0
        r1 == IF k1 = 1 THEN << "Strong bearish Heikin Ashi candle" >>
              ELSE IF k1 = 2 THEN << "Bearish Heikin Ashi with lower close" >>
              ELSE << >>
        k2 == last.HA_Trend_Strength <= -2
        c2 == IF k2 THEN Min2(20, Abs(last.HA_Trend_Strength) * 5) ELSE 0
        r2 == IF k2 THEN << "Consecutive bearish momentum" >> ELSE << >>
        k3 == IF Lt(Val(30), rsi) /\ Lt(rsi, Val(70)) THEN 1
              ELSE IF Gt(rsi, Val(70)) THEN 2
              ELSE IF Lt(rsi, Val(30)) THEN 3
              ELSE 0
        c3 == IF k3 = 1 THEN 10 ELSE IF k3 = 2 THEN 20
              ELSE IF k3 = 3 THEN -10 ELSE 0
        r3 == IF k3 = 1 THEN << "Neutral RSI level" >>
              ELSE IF k3 = 2 THEN << "RSI overbought sell signal" >>
              ELSE IF k3 = 3 THEN << "RSI oversold warning" >>
              ELSE << >>
        k4 == IF Le(price_distance, atr) THEN 1
              ELSE IF Lt(current_price, ema_21) THEN 2
              ELSE 0
        c4 == IF k4 = 1 THEN 15 ELSE IF k4 = 2 THEN 10 ELSE 0
        r4 == IF k4 = 1 THEN << "Price near EMA21 resistance" >>
              ELSE IF k4 = 2 THEN << "Price below EMA21" >>
              ELSE << >>
        k5 == Gt(x.volume_ratio, Val(12))
        c5 == IF k5 THEN 10 ELSE 0
        r5 == IF k5 THEN << "Volume confirmation" >> ELSE << >>
        k6 == last.HA_Shooting_Star /\ Ge(current_price, FSub(ema_21, atr))
        c6 == IF k6 THEN 20 ELSE 0
        r6 == IF k6 THEN << "Shooting star pattern near resistance" >> ELSE << >>
        k7 == prev.HA_Bullish /\ last.HA_Bearish /\ last.HA_Close < prev.HA_Close
        c7 == IF k7 THEN 15 ELSE 0
        r7 == IF k7 THEN << "Potential trend reversal" >> ELSE << >>
    IN  SignalTable(c1 + c2 + c3 + c4 + c5 + c6 + c7,
                    r1 \o r2 \o r3 \o r4 \o r5 \o r6 \o r7)

LastTwo(ha) == << ha[Len(ha)], ha[Len(ha) - 1] >>

BullishFromTable(rows, close, x) == BullishCase(rows[1], rows[2], close, x)
BearishFromTable(rows, close, x) == BearishCase(rows[1], rows[2], close, x)

is_bullish_signal(d, x) ==
    IF Len(d) < 5 THEN ShortTable
    ELSE BullishFromTable(LastTwo(calculate_heikin_ashi(d)), d[Len(d)].Close, x)

is_bearish_signal(d, x) ==
    IF Len(d) < 5 THEN ShortTable
    ELSE BearishFromTable(LastTwo(calculate_heikin_ashi(d)), d[Len(d)].Close, x)

\* Lines 312-333: which case becomes the primary signal.
BullishWinsWhenLower(bullish_signal, bearish_signal) ==
    bullish_signal.confidence < bearish_signal.confidence

BullishWinsOnTie(bullish_signal, bearish_signal) ==
    bullish_signal.confidence >= bearish_signal.confidence

BullishWins(bullish_signal, bearish_signal) ==
    bullish_signal.confidence > bearish_signal.confidence

PrimarySignal(bullish_signal, bearish_signal) ==
    IF bullish_signal.signal /\ bearish_signal.signal
    THEN IF BullishWins(bullish_signal, bearish_signal)
         THEN "BULLISH" ELSE "BEARISH"
    ELSE IF bullish_signal.signal THEN "BULLISH"
    ELSE IF bearish_signal.signal THEN "BEARISH"
    ELSE "NEUTRAL"

ErrorResult ==
    [ error |-> TRUE, primary_signal |-> "absent", primary_confidence |-> 0,
      primary_reasons |-> << >>,
      bullish_analysis |-> ShortTable, bearish_analysis |-> ShortTable ]

Resolved(primary_signal, bullish_signal, bearish_signal) ==
    [ error |-> FALSE,
      primary_signal |-> primary_signal,
      primary_confidence |->
          IF primary_signal = "BULLISH" THEN bullish_signal.confidence
          ELSE IF primary_signal = "BEARISH" THEN bearish_signal.confidence
          ELSE 0,
      primary_reasons |->
          IF primary_signal = "BULLISH" THEN bullish_signal.reasons
          ELSE IF primary_signal = "BEARISH" THEN bearish_signal.reasons
          ELSE << "No clear signal detected" >>,
      bullish_analysis |-> bullish_signal,
      bearish_analysis |-> bearish_signal ]

ResolveSignals(bullish_signal, bearish_signal) ==
    Resolved(PrimarySignal(bullish_signal, bearish_signal),
             bullish_signal, bearish_signal)

\* The raw bars a data source can deliver: Low <= Open, Close <= High.
ValidBars ==
    { b \in [Open : 1..MaxPrice, High : 1..MaxPrice, Low : 1..MaxPrice, Close : 1..MaxPrice] :
        b.Low <= Min2(b.Open, b.Close) /\ b.High >= Max2(b.Open, b.Close) }

\* Lines 49-50 and 78-90: the columns of the row before the last that the
\* last row and the two cases read; a bullish or bearish row that is not the
\* first of the table carries a streak of its own direction.
PrevRow(ha_open, ha_close, streak) ==
    [ HA_Open |-> ha_open,
      HA_Close |-> ha_close,
      HA_Bullish |-> HA_Bullish(ha_open, ha_close),
      HA_Bearish |-> HA_Bearish(ha_open, ha_close),
      HA_Trend_Strength |->
          IF HA_Bullish(ha_open, ha_close) THEN streak
          ELSE IF HA_Bearish(ha_open, ha_close) THEN -streak
          ELSE 0 ]

PrevRows ==
    { PrevRow(o * Scale, c * Scale, n) : o \in 1..MaxPrice, c \in 1..MaxPrice, n \in {1, 3} }

NoCandles == [ rows |-> << >>, close |-> 0 ]

\* Lines 293-333 on a table of at least five rows whose tail is rows.
analyze_candles(rows, close, x) ==
    IF x.raises THEN ErrorResult
    ELSE ResolveSignals(BullishFromTable(rows, close, x), BearishFromTable(rows, close, x))

analyze_single_stock(d, x) ==
    IF x.raises THEN ErrorResult
    ELSE ResolveSignals(is_bullish_signal(d, x), is_bearish_signal(d, x))

NotAnalyzed == [ error |-> FALSE, primary_signal |-> "pending",
                 primary_confidence |-> 0, primary_reasons |-> << >>,
                 bullish_analysis |-> ShortTable,
                 bearish_analysis |-> ShortTable ]

(***************************************************************************)
(* Screening scorer and gates.  Market cap is in millions of dollars,      *)
(* Volume_Ratio in tenths.                                                 *)
(***************************************************************************)
MarketCapMin == 100000
AvgVolumeMin == 1000000

Chain6(e) ==
    /\ Gt(e[1], e[2]) /\ Gt(e[2], e[3]) /\ Gt(e[3], e[4])
    /\ Gt(e[4], e[5]) /\ Gt(e[5], e[6])

passes_ema_stack_screen(d) ==
    IF d = << >> THEN FALSE ELSE Chain6(d[Len(d)].EMA)

adx_ok(latest) == NotNa(latest.ADX) /\ Gt(latest.ADX, Val(20))
stoch_ok(latest) == NotNa(latest.Stoch_K) /\ Lt(latest.Stoch_K, Val(40))
rsi_ok(latest) ==
    NotNa(latest.RSI) /\ Le(Val(30), latest.RSI) /\ Le(latest.RSI, Val(70))

\* Lines 147-165 with the three conditions joined by "or".
passes_momentum_screen_any(d) ==
    IF d = << >> THEN FALSE
    ELSE adx_ok(d[Len(d)]) \/ stoch_ok(d[Len(d)]) \/ rsi_ok(d[Len(d)])

passes_momentum_screen(d) ==
    IF d = << >> THEN FALSE
    ELSE adx_ok(d[Len(d)]) /\ stoch_ok(d[Len(d)]) /\ rsi_ok(d[Len(d)])

\* Lines 167-179 with the threshold of the 15-point volume score.
passes_volume_screen_strict(d) ==
    IF d = << >> THEN FALSE
    ELSE NotNa(d[Len(d)].Volume_Ratio) /\ Gt(d[Len(d)].Volume_Ratio, Val(15))

passes_volume_screen(d) ==
    IF d = << >> THEN FALSE
    ELSE NotNa(d[Len(d)].Volume_Ratio) /\ Gt(d[Len(d)].Volume_Ratio, Val(10))

passes_fundamental_screen(info) ==
    info.market_cap > MarketCapMin /\ info.avg_volume > AvgVolumeMin

ema_stack_score(d) == IF passes_ema_stack_screen(d) THEN 30 ELSE 0

momentum_score(latest) ==
    (IF adx_ok(latest) THEN 10 ELSE 0)
    + (IF stoch_ok(latest) THEN 8 ELSE 0)
    + (IF rsi_ok(latest) THEN 7 ELSE 0)

volume_score_both(latest) ==
    (IF NotNa(latest.Volume_Ratio) /\ Gt(latest.Volume_Ratio, Val(15)) THEN 15 ELSE 0)
    + (IF NotNa(latest.Volume_Ratio) /\ Gt(latest.Volume_Ratio, Val(10)) THEN 10 ELSE 0)

volume_score(latest) ==
    IF NotNa(latest.Volume_Ratio) /\ Gt(latest.Volume_Ratio, Val(15)) THEN 15
    ELSE IF NotNa(latest.Volume_Ratio) /\ Gt(latest.Volume_Ratio, Val(10)) THEN 10
    ELSE 0

fundamental_score(info) ==
    (IF info.market_cap > MarketCapMin THEN 10 ELSE 0)
    + (IF info.avg_volume > AvgVolumeMin THEN 5 ELSE 0)

tech_score(latest) ==
    (IF NotNa(latest.RSI) /\ Le(Val(40), latest.RSI) /\ Le(latest.RSI, Val(60))
        THEN 5 ELSE 0)
    + (IF NotNa(latest.ADX) /\ Gt(latest.ADX, Val(30)) THEN 5 ELSE 0)

ComponentNames == {"ema_stack", "momentum", "volume", "fundamental", "technical"}

\* sum(components.values())
RECURSIVE SumValues(_, _)
SumValues(f, keys) ==
    IF keys = {} THEN 0
    ELSE LET k == CHOOSE k \in keys : TRUE
         IN  f[k] + SumValues(f, keys \ {k})

ScoreOf(components) ==
    [ score |-> SumValues(components, DOMAIN components),
      components |-> components ]

calculate_screening_score(d, info) ==
    IF d = << >> THEN [ score |-> 0, components |-> [k \in {} |-> 0] ]
    ELSE ScoreOf([ ema_stack |-> ema_stack_score(d),
                   momentum |-> momentum_score(d[Len(d)]),
                   volume |-> volume_score(d[Len(d)]),
                   fundamental |-> fundamental_score(info),
                   technical |-> tech_score(d[Len(d)]) ])

AnyGate(ema_pass, momentum_pass, volume_pass, fundamental_pass) ==
    ema_pass \/ momentum_pass \/ volume_pass \/ fundamental_pass

AllGates(ema_pass, momentum_pass, volume_pass, fundamental_pass) ==
    ema_pass /\ momentum_pass /\ volume_pass /\ fundamental_pass

NoScreening ==
    [ none |-> TRUE, screening_score |-> 0,
      passes_ema_stack |-> FALSE, passes_momentum |-> FALSE,
      passes_volume |-> FALSE, passes_fundamental |-> FALSE,
      overall_pass |-> FALSE ]

ScreeningResult(score, ema_pass, momentum_pass, volume_pass, fundamental_pass) ==
    [ none |-> FALSE, screening_score |-> score.score,
      passes_ema_stack |-> ema_pass, passes_momentum |-> momentum_pass,
      passes_volume |-> volume_pass, passes_fundamental |-> fundamental_pass,
      overall_pass |-> AllGates(ema_pass, momentum_pass, volume_pass, fundamental_pass) ]

\* An empty table makes df.iloc[-1] at line 293 raise, and the handler at
\* lines 329-331 returns None.
screen_single_stock(d, info) ==
    IF d = << >> THEN NoScreening
    ELSE ScreeningResult(calculate_screening_score(d, info),
                         passes_ema_stack_screen(d),
                         passes_momentum_screen(d),
                         passes_volume_screen(d),
                         passes_fundamental_screen(info))

\* Latest rows the data source can deliver.
EmaStacks ==
    { << Val(6), Val(5), Val(4), Val(3), Val(2), Val(1) >>,
      << Val(6), Val(5), Val(5), Val(3), Val(2), Val(1) >>,
      << Val(5), Val(6), Val(4), Val(3), Val(2), Val(1) >>,
      << Val(1), Val(2), Val(3), Val(4), Val(5), Val(6) >>,
      << Val(6), Val(5), Val(4), Val(3), Val(2), NaN >> }

LatestRows ==
    [ EMA : EmaStacks,
      ADX : {NaN, Val(20), Val(21), Val(30), Val(31)},
      Stoch_K : {NaN, Val(39), Val(40)},
      RSI : {NaN, Val(29), Val(30), Val(39), Val(40), Val(60), Val(61), Val(70), Val(71)},
      Volume_Ratio : {NaN, Val(10), Val(11), Val(15), Val(16)} ]

StockInfos ==
    [ market_cap : {0, MarketCapMin, MarketCapMin + 1},
      avg_volume : {0, AvgVolumeMin, AvgVolumeMin + 1} ]

NoInfo == [ market_cap |-> 0, avg_volume |-> 0 ]
NoScore == [ score |-> 0, components |-> [k \in {} |-> 0] ]
NotScreened == << >>

ScrIdle ==
    /\ screen_df = << >>
    /\ stock_info = NoInfo
    /\ score_data = NoScore
    /\ screening = NotScreened

ScreenSingleStock ==
    /\ screening = NotScreened
    /\ \E d \in {<< >>} \cup {<< r >> : r \in LatestRows} : \E info \in StockInfos :
          /\ screen_df' = d
          /\ stock_info' = info
          /\ score_data' = calculate_screening_score(d, info)
          /\ screening' = << screen_single_stock(d, info) >>
    /\ UNCHANGED <<sigvars, projvars, sentvars, cycvars, loopvars, blendvars>>

(***************************************************************************)
(* Price projector.  Prices and ATR are in thousandths of a dollar,        *)
(* confidence in points, the trend strength in tenths, the volume factor   *)
(* in hundredths, base moves in millionths of the price.  A noise draw z   *)
(* is the standard-normal sample behind np.random.normal(0, sigma), which  *)
(* returns sigma * z; the price before clamping is cut to the price unit.  *)
(***************************************************************************)
trend_strength(ema_8, ema_21, ema_55) ==
    IF ema_8 > ema_21 /\ ema_21 > ema_55 THEN 8
    ELSE IF ema_8 < ema_21 /\ ema_21 < ema_55 THEN 2
    ELSE 5

volume_factor(volume_ratio) == Min2(150, Max2(50, volume_ratio))

\* base_move_* of lines 186-188 and 197-199, in millionths; rate is 3000,
\* 15000 or 40000.
base_move(signal_type, rate, confidence, trend, vfactor) ==
    IF signal_type = "BULLISH"
    THEN (((((rate * confidence) \div 100) * trend) \div 10) * vfactor) \div 100
    ELSE IF signal_type = "BEARISH"
    THEN -((((((rate * confidence) \div 100) * (10 - trend)) \div 10) * vfactor) \div 100)
    ELSE 0

\* np.random.normal(0, volatility_factor * k / 10) times current_price, for
\* k tenths (neutral: half of it).
noise_move(signal_type, atr, k, z) ==
    IF signal_type \in {"BULLISH", "BEARISH"}
    THEN (atr * k * z) \div 10
    ELSE (atr * k * z) \div 20

raw_price(current_price, move_ppm, noise) ==
    current_price + ((current_price * move_ppm) \div 1000000) + noise

\* round(x, 2) on thousandths: to the nearest cent, halves to the even cent.
round2(x) ==
    IF x % 10 < 5 THEN (x \div 10) * 10
    ELSE IF x % 10 > 5 THEN ((x \div 10) + 1) * 10
    ELSE IF (x \div 10) % 2 = 0 THEN (x \div 10) * 10
    ELSE ((x \div 10) + 1) * 10

clamp_to_max_move(current_price, max_move, price) ==
    Max2(current_price - max_move, Min2(current_price + max_move, price))

horizon_price(a, rate, k, z) ==
    round2(clamp_to_max_move(a.current_price, a.atr * 3,
        raw_price(a.current_price,
                  base_move(a.signal_type, rate, a.confidence,
                            trend_strength(a.ema[1], a.ema[2], a.ema[3]),
                            volume_factor(a.volume_ratio)),
                  noise_move(a.signal_type, a.atr, k, z))))

NoPrices == [ price_1h |-> NaN, price_1d |-> NaN, price_1w |-> NaN ]

calculate_advanced_predictions(a) ==
    IF a.raises THEN NoPrices
    ELSE [ price_1h |-> Val(horizon_price(a, 3000, 1, a.z[1])),
           price_1d |-> Val(horizon_price(a, 15000, 2, a.z[2])),
           price_1w |-> Val(horizon_price(a, 40000, 3, a.z[3])) ]

NoiseDraws == {-40, 0, 40}

ProjectionInputs ==
    [ raises : {FALSE},
      current_price : {10000, 10004, 10005},
      atr : {0, 500, 501},
      signal_type : {"BULLISH", "BEARISH", "NEUTRAL"},
      confidence : {0, 50, 100},
      ema : { <<3, 2, 1>>, <<1, 2, 3>>, <<2, 2, 2>> },
      volume_ratio : {30, 100, 200},
      z : NoiseDraws \X NoiseDraws \X NoiseDraws ]
    \cup
    [ raises : {TRUE}, current_price : {10000}, atr : {0},
      signal_type : {"NEUTRAL"}, confidence : {0}, ema : { <<2, 2, 2>> },
      volume_ratio : {100}, z : { <<0, 0, 0>> } ]

ProjIdle ==
    /\ proj_in = << >>
    /\ predictions = NoPrices

CalculateAdvancedPredictions ==
    /\ proj_in = << >>
    /\ \E a \in ProjectionInputs :
          /\ proj_in' = << a >>
          /\ predictions' = calculate_advanced_predictions(a)
    /\ UNCHANGED <<sigvars, scrvars, sentvars, cycvars, loopvars, blendvars>>

(***************************************************************************)
(* Sentiment batch analysis.  A text is its content hash.  Confidence is   *)
(* in tenths.  The classifier and TextBlob are external: a classifier call *)
(* answers with parsable JSON, answers with text that does not parse, or   *)
(* raises (errors and the 30 s timeout alike), call by call; whether the   *)
(* replies parse and whether TextBlob works is fixed for a run.            *)
(***************************************************************************)
Texts == {1, 2}
CallTicker == "AAPL"
OtherTicker == "MSFT"
SemaphorePermits == 5

\* Line 105: entering "async with semaphore" takes a permit, leaving it
\* gives the permit back.
acquire_uncounted(value) == value

acquire(value) == value - 1

release(value) == value + 1

Signal(kind, confidence, ticker, text) ==
    [ kind |-> kind, confidence |-> confidence, ticker |-> ticker, text |-> text ]

NoSignal == Signal("none", 0, "", 0)

\* Lines 236-273: the lexicon score with confidence 0.3, or, when the
\* lexicon scoring raises too, the neutral signal with confidence 0.1.
_create_fallback_signal_llm_default(text, ticker, blob_ok) ==
    IF blob_ok THEN Signal("fallback", 5, ticker, text)
    ELSE Signal("neutral", 1, ticker, text)

_create_fallback_signal(text, ticker, blob_ok) ==
    IF blob_ok THEN Signal("fallback", 3, ticker, text)
    ELSE Signal("neutral", 1, ticker, text)

\* Lines 204-234: a response that parses gives the classifier's signal, any
\* other response the fallback signal.
_parse_llm_response(parses, text, ticker, blob_ok) ==
    IF parses THEN Signal("llm", 8, ticker, text)
    ELSE _create_fallback_signal(text, ticker, blob_ok)

\* Lines 135-137: the handler of a failed classifier call.
on_llm_failure_reraise(text, ticker, blob_ok) == Signal("exception", 0, ticker, text)

on_llm_failure(text, ticker, blob_ok) == _create_fallback_signal(text, ticker, blob_ok)

\* Line 90.
valid_results(results) == SelectSeq(results, LAMBDA r : r.kind # "exception")

\* A task ends by a cache hit, by the classifier's answer, or by its failure.
Finished(i) == task_pc[i] \in {"cached", "answered", "failed"}

InFlight == { i \in DOMAIN task_pc : task_pc[i] = "calling" }

\* The batches a caller passes: n texts, drawn cyclically from k distinct.
Batches ==
    { [i \in 1..n |-> ((i - 1) % k) + 1] : n \in 0..MaxTexts, k \in 1..Cardinality(Texts) }

\* What earlier calls may have left in the cache for text 1: nothing, a
\* classifier signal for this or another ticker, or the fallback signal of
\* a response that did not parse.
CacheStates ==
    { [t \in Texts |-> << >>] } \cup
    { [t \in Texts |-> IF t = 1 THEN << c >> ELSE << >>] :
        c \in { Signal("llm", 8, CallTicker, 1), Signal("llm", 8, OtherTicker, 1),
                Signal("fallback", 3, OtherTicker, 1) } }

SentIdle ==
    /\ texts = << >>
    /\ task_pc = << >>
    /\ task_result = << >>
    /\ semaphore = 0
    /\ analysis_cache = [t \in Texts |-> << >>]
    /\ llm_calls = [t \in Texts |-> 0]
    /\ batch_pc = "idle"
    /\ llm_parses = TRUE
    /\ textblob_ok = TRUE
    /\ returned = << >>

\* Lines 76-87: the call creates its semaphore and one task per text.
AnalyzeBatch ==
    /\ batch_pc = "idle"
    /\ \E b \in Batches :
          /\ texts' = b
          /\ task_pc' = [i \in DOMAIN b |-> "ready"]
          /\ task_result' = [i \in DOMAIN b |-> NoSignal]
    /\ semaphore' = SemaphorePermits
    /\ batch_pc' = "gathering"
    /\ UNCHANGED <<analysis_cache, llm_calls, returned, llm_parses, textblob_ok>>
    /\ UNCHANGED <<sigvars, scrvars, projvars, cycvars, loopvars, blendvars>>

\* Lines 105-124: a task takes a permit and runs to its first suspension.
\* On a cache hit it returns the cached signal and frees the permit at once;
\* otherwise it is suspended in the classifier call, holding the permit.
TaskAcquire(i) ==
    /\ batch_pc = "gathering"
    /\ task_pc[i] = "ready"
    /\ semaphore > 0
    /\ IF analysis_cache[texts[i]] # << >>
       THEN /\ task_pc' = [task_pc EXCEPT ![i] = "cached"]
            /\ task_result' = [task_result EXCEPT ![i] = analysis_cache[texts[i]][1]]
            /\ UNCHANGED <<semaphore, llm_calls>>
       ELSE /\ task_pc' = [task_pc EXCEPT ![i] = "calling"]
            /\ semaphore' = acquire(semaphore)
            /\ llm_calls' = [llm_calls EXCEPT ![texts[i]] = @ + 1]
            /\ UNCHANGED task_result
    /\ UNCHANGED <<texts, analysis_cache, batch_pc, returned, llm_parses, textblob_ok>>
    /\ UNCHANGED <<sigvars, scrvars, projvars, cycvars, loopvars, blendvars>>

\* Lines 124-133: the classifier answered; the parsed signal (or the
\* fallback signal _parse_llm_response returned) is cached and returned.
LLMAnswers(i) ==
    /\ task_pc[i] = "calling"
    /\ task_result' = [task_result EXCEPT ![i] =
           _parse_llm_response(llm_parses, texts[i], CallTicker, textblob_ok)]
    /\ analysis_cache' = [analysis_cache EXCEPT ![texts[i]] =
           << _parse_llm_response(llm_parses, texts[i], CallTicker, textblob_ok) >>]
    /\ task_pc' = [task_pc EXCEPT ![i] = "answered"]
    /\ semaphore' = release(semaphore)
    /\ UNCHANGED <<texts, llm_calls, batch_pc, returned, llm_parses, textblob_ok>>
    /\ UNCHANGED <<sigvars, scrvars, projvars, cycvars, loopvars, blendvars>>

\* Lines 135-137 and 200-202: the classifier call raised or timed out.
LLMFails(i) ==
    /\ task_pc[i] = "calling"
    /\ task_result' = [task_result EXCEPT ![i] =
           on_llm_failure(texts[i], CallTicker, textblob_ok)]
    /\ task_pc' = [task_pc EXCEPT ![i] = "failed"]
    /\ semaphore' = release(semaphore)
    /\ UNCHANGED <<texts, analysis_cache, llm_calls, batch_pc, returned, llm_parses, textblob_ok>>
    /\ UNCHANGED <<sigvars, scrvars, projvars, cycvars, loopvars, blendvars>>

\* Lines 87-97: gather has every result; the call returns the valid ones.
GatherReturns ==
    /\ batch_pc = "gathering"
    /\ \A i \in DOMAIN task_pc : Finished(i)
    /\ returned' = valid_results(task_result)
    /\ batch_pc' = "returned"
    /\ UNCHANGED <<texts, task_pc, task_result, semaphore, analysis_cache, llm_calls, llm_parses, textblob_ok>>
    /\ UNCHANGED <<sigvars, scrvars, projvars, cycvars, loopvars, blendvars>>

(***************************************************************************)
(* Prediction cycles of the three schedulers.  A ticker is a number.       *)
(* yfinance, the screener, the signal detector's fetch and the database    *)
(* are external (AdvancedScreener, screen_stocks and detect_signals are    *)
(* not part of the sources): the outcome of each call is an input.         *)
(***************************************************************************)
BatchSize == 5

\* signal_prediction_scheduler.py 91-103: the distinct tickers of the
\* stocks table, or, when that is empty or cannot be read, the default
\* list; never an empty universe.  simple_scheduler.py 32-37: a fixed list.
Universes == { [i \in 1..n |-> i] : n \in 1..MaxTickers }

TickerIds == 1..MaxTickers

Schedulers == {"signal", "advanced", "simple"}

\* Line 320: tickers[i:i + batch_size].
batch_with_one_more(all, i) == SubSeq(all, i + 1, Min2(i + BatchSize + 1, Len(all)))

batch_without_last(all, i) == SubSeq(all, i + 1, Min2(i + BatchSize - 1, Len(all)))

batch(all, i) == SubSeq(all, i + 1, Min2(i + BatchSize, Len(all)))

PredictionData(ticker) == [ kind |-> "PredictionData", ticker |-> ticker ]
None == [ kind |-> "None", ticker |-> 0 ]
Pending == [ kind |-> "pending", ticker |-> 0 ]

\* How a ticker's pipeline can end: no bars, an exception at some stage,
\* a screener (or signal detector) result that is empty, or a prediction.
PipelineOutcomes == {"no_bars", "exception", "screener_empty", "ok"}

\* Lines 157-217.
analyze_ticker(ticker, outcome) ==
    IF outcome = "ok" THEN PredictionData(ticker) ELSE None

\* Lines 277-309: a failed INSERT is logged and leaves the table as it was.
save_prediction_even_if_failed(table, prediction, write_ok) == Append(table, prediction.ticker)

save_prediction_upsert(table, prediction, write_ok) ==
    IF write_ok
    THEN Append(SelectSeq(table, LAMBDA r : r # prediction.ticker), prediction.ticker)
    ELSE table

save_prediction(table, prediction, write_ok) ==
    IF write_ok THEN Append(table, prediction.ticker) ELSE table

\* A write on the signal scheduler's pool fails once the pool is closed.
WriteOutcomes == IF scheduler = "signal" /\ ~db_pool_open THEN {FALSE} ELSE BOOLEAN

CycIdle ==
    /\ tickers = << >>
    /\ cycle_pc = "idle"
    /\ batch_start = 0
    /\ batch_predictions = << >>
    /\ save_idx = 0
    /\ signal_predictions = << >>
    /\ outcomes = [t \in TickerIds |-> "unseen"]
    /\ writes = [t \in TickerIds |-> "none"]
    /\ scheduler = "signal"
    /\ stocks = << >>

\* signal_prediction_scheduler.py 314-324, simple_scheduler.py 249-255:
\* the cycle takes its universe and starts the tasks of the first batch.
StartCycle ==
    /\ scheduler \in {"signal", "simple"}
    /\ loop_pc = "in_cycle"
    /\ cycle_pc = "idle"
    /\ tickers' = stocks
    /\ batch_predictions' = [k \in DOMAIN batch(stocks, 0) |-> Pending]
    /\ cycle_pc' = "analyzing"
    /\ batch_start' = 0
    /\ UNCHANGED <<save_idx, signal_predictions, outcomes, writes, scheduler, stocks>>
    /\ UNCHANGED <<sigvars, scrvars, projvars, sentvars, loopvars, blendvars>>

\* Lines 60-63: the default list, 27 distinct tickers in the source; the
\* model keeps the two tickers of its last, partial batch.
default_tickers == << MaxTickers, MaxTickers - 1 >>

\* What the SELECT DISTINCT of line 96 can find in the stocks table.
StocksTables == { << >> } \cup Universes

\* Lines 91-103: the rows of the query, or the default list when the query
\* raises or finds nothing.
get_active_tickers_unguarded(query_ok, rows) ==
    IF query_ok THEN rows ELSE default_tickers

get_active_tickers(query_ok, rows) ==
    IF query_ok /\ rows # << >> THEN rows ELSE default_tickers

\* Lines 314-324: the cycle asks for its universe and starts the tasks of
\* the first batch; over an empty list the loop would not run at all.
StartPredictionCycle ==
    /\ scheduler = "signal"
    /\ loop_pc = "in_cycle"
    /\ cycle_pc = "idle"
    /\ \E query_ok \in BOOLEAN :
          /\ tickers' = get_active_tickers(query_ok, stocks)
          /\ batch_predictions' =
                 [k \in DOMAIN batch(get_active_tickers(query_ok, stocks), 0) |-> Pending]
          /\ cycle_pc' =
                 IF get_active_tickers(query_ok, stocks) = << >> THEN "completed" ELSE "analyzing"
    /\ batch_start' = 0
    /\ UNCHANGED <<save_idx, signal_predictions, outcomes, writes, scheduler, stocks>>
    /\ UNCHANGED <<sigvars, scrvars, projvars, sentvars, loopvars, blendvars>>

\* Lines 157-217: the task of the k-th ticker of the batch ends.
AnalyzeTicker(k) ==
    /\ scheduler = "signal"
    /\ cycle_pc = "analyzing"
    /\ batch_predictions[k] = Pending
    /\ \E outcome \in PipelineOutcomes :
          /\ batch_predictions' = [batch_predictions EXCEPT ![k] =
                 analyze_ticker(batch(tickers, batch_start)[k], outcome)]
          /\ outcomes' = [outcomes EXCEPT ![batch(tickers, batch_start)[k]] = outcome]
    /\ UNCHANGED <<tickers, cycle_pc, batch_start, save_idx, signal_predictions, writes, scheduler, stocks>>
    /\ UNCHANGED <<sigvars, scrvars, projvars, sentvars, loopvars, blendvars>>

\* simple_scheduler.py 165-245: the task of the k-th ticker of the batch
\* ends; it has written its own record, or logged why it did not.
AnalyzeAndSaveTicker(k) ==
    /\ scheduler = "simple"
    /\ cycle_pc = "analyzing"
    /\ batch_predictions[k] = Pending
    /\ \E outcome \in PipelineOutcomes \ {"screener_empty"} : \E write_ok \in WriteOutcomes :
          /\ (outcome # "ok" => write_ok)
          /\ outcomes' = [outcomes EXCEPT ![batch(tickers, batch_start)[k]] = outcome]
          /\ IF outcome = "ok"
             THEN /\ signal_predictions' = save_prediction(signal_predictions,
                         PredictionData(batch(tickers, batch_start)[k]), write_ok)
                  /\ writes' = [writes EXCEPT ![batch(tickers, batch_start)[k]] =
                         IF write_ok THEN "ok" ELSE "failed"]
             ELSE UNCHANGED <<signal_predictions, writes>>
    /\ batch_predictions' = [batch_predictions EXCEPT ![k] = None]
    /\ UNCHANGED <<tickers, cycle_pc, batch_start, save_idx, scheduler, stocks>>
    /\ UNCHANGED <<sigvars, scrvars, projvars, sentvars, loopvars, blendvars>>

\* Line 324: gather returns once every task of the batch has ended.
GatherPredictions ==
    /\ scheduler = "signal"
    /\ cycle_pc = "analyzing"
    /\ \A k \in DOMAIN batch_predictions : batch_predictions[k] # Pending
    /\ cycle_pc' = "saving"
    /\ save_idx' = 1
    /\ UNCHANGED <<tickers, batch_start, batch_predictions, signal_predictions, outcomes, writes, scheduler, stocks>>
    /\ UNCHANGED <<sigvars, scrvars, projvars, sentvars, loopvars, blendvars>>

\* simple_scheduler.py 254-255: gather returns; the cycle sleeps 2 seconds.
GatherSaved ==
    /\ scheduler = "simple"
    /\ cycle_pc = "analyzing"
    /\ \A k \in DOMAIN batch_predictions : batch_predictions[k] # Pending
    /\ cycle_pc' = "sleeping"
    /\ UNCHANGED <<tickers, batch_start, batch_predictions, save_idx, signal_predictions, outcomes, writes, scheduler, stocks>>
    /\ UNCHANGED <<sigvars, scrvars, projvars, sentvars, loopvars, blendvars>>

\* signal_prediction_scheduler.py 327-331 and advanced_scheduler.py
\* 469-470: one turn of the save loop.
SavePrediction ==
    /\ scheduler \in {"signal", "advanced"}
    /\ cycle_pc = "saving"
    /\ save_idx \in DOMAIN batch_predictions
    /\ IF batch_predictions[save_idx].kind = "PredictionData"
       THEN \E write_ok \in WriteOutcomes :
               /\ signal_predictions' =
                      save_prediction(signal_predictions, batch_predictions[save_idx], write_ok)
               /\ writes' = [writes EXCEPT ![batch_predictions[save_idx].ticker] =
                      IF write_ok THEN "ok" ELSE "failed"]
       ELSE UNCHANGED <<signal_predictions, writes>>
    /\ save_idx' = save_idx + 1
    /\ UNCHANGED <<tickers, cycle_pc, batch_start, batch_predictions, outcomes, scheduler, stocks>>
    /\ UNCHANGED <<sigvars, scrvars, projvars, sentvars, loopvars, blendvars>>

\* Lines 333-334: the save loop is over; the cycle sleeps a second.
BatchSavedEarly ==
    /\ scheduler = "signal"
    /\ cycle_pc = "saving"
    /\ save_idx >= 1
    /\ cycle_pc' = "sleeping"
    /\ UNCHANGED <<tickers, batch_start, batch_predictions, save_idx, signal_predictions, outcomes, writes, scheduler, stocks>>
    /\ UNCHANGED <<sigvars, scrvars, projvars, sentvars, loopvars, blendvars>>

BatchSaved ==
    /\ scheduler = "signal"
    /\ cycle_pc = "saving"
    /\ save_idx > Len(batch_predictions)
    /\ cycle_pc' = "sleeping"
    /\ UNCHANGED <<tickers, batch_start, batch_predictions, save_idx, signal_predictions, outcomes, writes, scheduler, stocks>>
    /\ UNCHANGED <<sigvars, scrvars, projvars, sentvars, loopvars, blendvars>>

\* Lines 319-324 and 336: after the sleep, the next batch or the end.
NextBatch ==
    /\ cycle_pc = "sleeping"
    /\ batch_start' = batch_start + BatchSize
    /\ IF batch_start + BatchSize < Len(tickers)
       THEN /\ cycle_pc' = "analyzing"
            /\ batch_predictions' =
                   [k \in DOMAIN batch(tickers, batch_start + BatchSize) |-> Pending]
       ELSE /\ cycle_pc' = "completed"
            /\ UNCHANGED batch_predictions
    /\ UNCHANGED <<tickers, save_idx, signal_predictions, outcomes, writes, scheduler, stocks>>
    /\ UNCHANGED <<sigvars, scrvars, projvars, sentvars, loopvars, blendvars>>

\* advanced_scheduler.py 451-459: the screening gives the candidates of the
\* cycle; without candidates the cycle is skipped.
RunAdvancedScreening ==
    /\ scheduler = "advanced"
    /\ loop_pc = "in_cycle"
    /\ cycle_pc = "idle"
    /\ \E candidates \in {stocks, << >>} :
          /\ tickers' = candidates
          /\ cycle_pc' = IF candidates = << >> THEN "completed" ELSE "analyzing"
    /\ batch_start' = 0
    /\ batch_predictions' = << >>
    /\ UNCHANGED <<save_idx, signal_predictions, outcomes, writes, scheduler, stocks>>
    /\ UNCHANGED <<sigvars, scrvars, projvars, sentvars, loopvars, blendvars>>

\* advanced_scheduler.py 458-466: the candidates are analyzed one after the
\* other; each prediction is appended to the list of the cycle.
AnalyzeWithHeikinAshi ==
    /\ scheduler = "advanced"
    /\ cycle_pc = "analyzing"
    /\ batch_start < Len(tickers)
    /\ \E outcome \in PipelineOutcomes :
          /\ outcomes' = [outcomes EXCEPT ![tickers[batch_start + 1]] = outcome]
          /\ batch_predictions' =
                 IF outcome = "ok"
                 THEN Append(batch_predictions, PredictionData(tickers[batch_start + 1]))
                 ELSE batch_predictions
    /\ batch_start' = batch_start + 1
    /\ IF batch_start + 1 = Len(tickers)
       THEN cycle_pc' = "saving" /\ save_idx' = 1
       ELSE UNCHANGED <<cycle_pc, save_idx>>
    /\ UNCHANGED <<tickers, signal_predictions, writes, scheduler, stocks>>
    /\ UNCHANGED <<sigvars, scrvars, projvars, sentvars, loopvars, blendvars>>

\* advanced_scheduler.py 469-472: every prediction of the cycle was handed
\* to save_prediction.
PredictionsSaved ==
    /\ scheduler = "advanced"
    /\ cycle_pc = "saving"
    /\ save_idx > Len(batch_predictions)
    /\ cycle_pc' = "completed"
    /\ UNCHANGED <<tickers, batch_start, batch_predictions, save_idx, signal_predictions, outcomes, writes, scheduler, stocks>>
    /\ UNCHANGED <<sigvars, scrvars, projvars, sentvars, loopvars, blendvars>>

\* The scheduler's loop before start.
LoopIdle ==
    /\ running = FALSE
    /\ loop_pc = "not_started"
    /\ cycle_raised = FALSE
    /\ elapsed = -1
    /\ sleep_time = -1
    /\ start_gap = -1
    /\ cycles_started = 0
    /\ db_pool_open = FALSE

(***************************************************************************)
(* The schedulers' loops.  Time is in seconds.  How long a cycle took is   *)
(* an input, drawn when the cycle ends.                                    *)
(***************************************************************************)
CycleInterval == 300
BackoffSeconds == 60

Durations == {0, 120, 300, 301, 450}

LoopUniverses == { u \in Universes : Len(u) <= MaxLoopTickers }

\* signal_prediction_scheduler.py 356, advanced_scheduler.py 494,
\* simple_scheduler.py 272: sleep_time = max(0, 300 - elapsed).
sleep_time_unclamped(took) == CycleInterval - took

next_sleep_time(took) == Max2(0, CycleInterval - took)

\* SimpleScheduler loops on "while True"; the other two on their flag.
LoopContinuesAlways == TRUE

LoopContinues == scheduler = "simple" \/ running

\* Lines 342-346 (start_scheduler), advanced_scheduler.py 479-481 (start),
\* simple_scheduler.py 261 (start): the loop is entered.  The signal
\* scheduler first opens its pool; if that fails, start_scheduler raises.
Start ==
    /\ loop_pc = "not_started"
    /\ \E pool_ok \in (IF scheduler = "signal" THEN BOOLEAN ELSE {TRUE}) :
          /\ db_pool_open' = (scheduler = "signal" /\ pool_ok)
          /\ loop_pc' = IF pool_ok THEN "check_running" ELSE "start_failed"
    /\ running' = (scheduler # "simple")
    /\ UNCHANGED <<cycle_raised, elapsed, sleep_time, start_gap, cycles_started>>
    /\ UNCHANGED <<sigvars, scrvars, projvars, sentvars, cycvars, blendvars>>

\* "while self.running:" followed by start_time = datetime.now() and the
\* call of the cycle; when the flag is down the loop is left.
CheckRunning ==
    /\ loop_pc = "check_running"
    /\ IF LoopContinues
       THEN /\ cycles_started < MaxCycles
            /\ loop_pc' = "in_cycle"
            /\ cycles_started' = cycles_started + 1
            /\ start_gap' = IF cycles_started = 0 THEN -1 ELSE elapsed + sleep_time
            /\ cycle_raised' = FALSE
            /\ cycle_pc' = "idle"
            /\ tickers' = << >>
            /\ batch_start' = 0
            /\ batch_predictions' = << >>
            /\ save_idx' = 0
            /\ outcomes' = [t \in TickerIds |-> "unseen"]
            /\ writes' = [t \in TickerIds |-> "none"]
            /\ UNCHANGED running
       ELSE /\ loop_pc' = "returned"
            /\ running' = FALSE
            /\ UNCHANGED <<cycles_started, start_gap, cycle_raised, cycle_pc, tickers, batch_start, batch_predictions, save_idx, outcomes, writes>>
    /\ UNCHANGED <<elapsed, sleep_time, db_pool_open, signal_predictions, scheduler, stocks>>
    /\ UNCHANGED <<sigvars, scrvars, projvars, sentvars, blendvars>>

\* The cycle returned: elapsed is measured and the sleep computed.
CycleReturns ==
    /\ loop_pc = "in_cycle"
    /\ cycle_pc = "completed"
    /\ \E took \in Durations :
          /\ elapsed' = took
          /\ sleep_time' = next_sleep_time(took)
    /\ loop_pc' = "sleeping"
    /\ UNCHANGED <<running, cycle_raised, start_gap, cycles_started, db_pool_open>>
    /\ UNCHANGED <<sigvars, scrvars, projvars, sentvars, cycvars, blendvars>>

\* An unexpected exception is raised in the cycle, outside the ticker
\* pipelines (before the first batch, in the save loop, between batches).
\* run_prediction_cycle (lines 338-340) and the advanced run_cycle
\* (advanced_scheduler.py 475-477) catch it, log it and return; the simple
\* run_cycle has no handler, so it reaches the loop's handler, which
\* sleeps 60 seconds (simple_scheduler.py 282-284).
CycleRaises ==
    /\ loop_pc = "in_cycle"
    /\ cycle_pc \in {"idle", "saving", "sleeping"}
    /\ cycle_raised' = TRUE
    /\ IF scheduler = "simple"
       THEN /\ cycle_pc' = "raised"
            /\ loop_pc' = "backoff"
            /\ \E took \in Durations : elapsed' = took
            /\ sleep_time' = BackoffSeconds
       ELSE /\ cycle_pc' = "completed"
            /\ UNCHANGED <<loop_pc, elapsed, sleep_time>>
    /\ UNCHANGED <<running, start_gap, cycles_started, db_pool_open>>
    /\ UNCHANGED <<tickers, batch_start, batch_predictions, save_idx, signal_predictions, outcomes, writes, scheduler, stocks>>
    /\ UNCHANGED <<sigvars, scrvars, projvars, sentvars, blendvars>>

\* The sleep (regular or backoff) is over; the loop tests its condition.
WakeUp ==
    /\ loop_pc \in {"sleeping", "backoff"}
    /\ loop_pc' = "check_running"
    /\ UNCHANGED <<running, cycle_raised, elapsed, sleep_time, start_gap, cycles_started, db_pool_open>>
    /\ UNCHANGED <<sigvars, scrvars, projvars, sentvars, cycvars, blendvars>>

\* signal_prediction_scheduler.py 365-369 (stop_scheduler, which also
\* closes the pool) and advanced_scheduler.py 507-510 (stop), called by
\* another task while the loop runs.
Stop ==
    /\ scheduler \in {"signal", "advanced"}
    /\ loop_pc \notin {"not_started", "start_failed", "returned"}
    /\ running
    /\ running' = FALSE
    /\ db_pool_open' = FALSE
    /\ UNCHANGED <<loop_pc, cycle_raised, elapsed, sleep_time, start_gap, cycles_started>>
    /\ UNCHANGED <<sigvars, scrvars, projvars, sentvars, cycvars, blendvars>>

(***************************************************************************)
(* Sentiment blending of AdvancedPredictionScheduler                       *)
(* (backend/advanced_scheduler.py): the confidence-weighted aggregation of *)
(* a ticker's sentiment signals and the adjustment of a technical          *)
(* confidence.  Scores and confidences of signals are in tenths; the       *)
(* rounded aggregates of the returned dict are in thousandths, its boost   *)
(* in tenths; confidences in percent are held in millionths of a percent.  *)
(***************************************************************************)
Micro == 1000000

\* round(x, n) of Python on the exact quotient n / d, d > 0: to the nearest
\* integer, a tie to the even one.
RoundHalfEven(n, d) ==
    LET q == n \div d
        r == n - q * d
    IN  IF 2 * r < d THEN q
        ELSE IF 2 * r > d THEN q + 1
        ELSE IF q % 2 = 0 THEN q ELSE q + 1

\* Lines 215-216 of llm_sentiment_analyzer.py clamp what a signal carries.
SignalScores == {-10, 0, 5, 10}
SignalConfidences == {0, 3, 6, 10}
SentimentSignal(score, conf) == [ sentiment_score |-> score, confidence |-> conf ]
SignalValues == { SentimentSignal(s, c) : s \in SignalScores, c \in SignalConfidences }
SignalBatches(n) == UNION { [1..k -> SignalValues] : k \in 0..n }

\* Line 323: a signal weighs as much as its confidence.
weight_uniform(signal) == 10

weight(signal) == signal.confidence

\* Lines 318-326: the three running sums of the loop.
RECURSIVE total_weight(_)
total_weight(signals) ==
    IF signals = << >> THEN 0
    ELSE weight(Head(signals)) + total_weight(Tail(signals))

RECURSIVE weighted_sentiment(_)
weighted_sentiment(signals) ==
    IF signals = << >> THEN 0
    ELSE Head(signals).sentiment_score * weight(Head(signals)) + weighted_sentiment(Tail(signals))

RECURSIVE weighted_confidence(_)
weighted_confidence(signals) ==
    IF signals = << >> THEN 0
    ELSE Head(signals).confidence * weight(Head(signals)) + weighted_confidence(Tail(signals))

SentimentData(score, conf, impact, boost, count) ==
    [ sentiment_score |-> score, sentiment_confidence |-> conf, sentiment_impact |-> impact, sentiment_boost |-> boost, news_count |-> count ]

\* Lines 284-290, 309-315 and 365-371: the three early results.
NoSentiment(count) == SentimentData(0, 0, "negligible", 0, count)

\* Lines 336-343, on avg_confidence = wc / (10 tw) and avg_sentiment = ws / (10 tw).
sentiment_impact(ws, wc, tw) ==
    IF wc > 7 * tw /\ Abs(ws) > 3 * tw THEN "immediate"
    ELSE IF wc > 5 * tw /\ Abs(ws) > 2 * tw THEN "short-term"
    ELSE IF wc > 3 * tw /\ Abs(ws) > tw THEN "long-term"
    ELSE "negligible"

\* Lines 346-351 and 359: avg_sentiment * avg_confidence * 20, clamped to
\* 15 on its side of zero, in tenths after round(., 1).
sentiment_boost(ws, wc, tw) ==
    IF sentiment_impact(ws, wc, tw) = "negligible" THEN 0
    ELSE IF ws > 0 THEN Min2(150, RoundHalfEven(2 * ws * wc, tw * tw))
    ELSE Max2(-150, RoundHalfEven(2 * ws * wc, tw * tw))

\* Lines 328-333 and 355-361: the aggregates, and what of them is returned.
aggregate(signals, count) ==
    LET tw == total_weight(signals)
        ws == weighted_sentiment(signals)
        wc == weighted_confidence(signals)
    IN  IF tw > 0
        THEN SentimentData(RoundHalfEven(100 * ws, tw), RoundHalfEven(100 * wc, tw),
                           sentiment_impact(ws, wc, tw), sentiment_boost(ws, wc, tw), count)
        ELSE SentimentData(0, 0, "negligible", 0, count)

\* Lines 276-371.
analyze_sentiment_for_ticker(fetch_ok, count, signals) ==
    IF ~fetch_ok THEN NoSentiment(0)
    ELSE IF count = 0 THEN NoSentiment(0)
    ELSE IF signals = << >> THEN NoSentiment(count)
    ELSE aggregate(signals, count)

SignalTypes == {"BULLISH", "BEARISH", "NEUTRAL"}
TechnicalConfidences == {0, 5, 50, 90, 95, 100}
ScoreInputs == {-1000, -500, -201, -200, -1, 0, 1, 200, 201, 500, 1000}
ConfidenceInputs == {0, 499, 500, 750, 1000}

\* Lines 384-398 without the caps of 15 and -10.
adjustment_unclamped(kind, score, conf) ==
    IF kind = "BULLISH" /\ score > 0 THEN score * conf * 20
    ELSE IF kind = "BEARISH" /\ score < 0 THEN Abs(score) * conf * 20
    ELSE IF kind = "BULLISH" /\ score < -200 THEN score * conf * 15
    ELSE IF kind = "BEARISH" /\ score > 200 THEN (-score) * conf * 15
    ELSE 0

\* Lines 384-398.
adjustment(kind, score, conf) ==
    IF kind = "BULLISH" /\ score > 0 THEN Min2(15 * Micro, score * conf * 20)
    ELSE IF kind = "BEARISH" /\ score < 0 THEN Min2(15 * Micro, Abs(score) * conf * 20)
    ELSE IF kind = "BULLISH" /\ score < -200 THEN Max2(-10 * Micro, score * conf * 15)
    ELSE IF kind = "BEARISH" /\ score > 200 THEN Max2(-10 * Micro, (-score) * conf * 15)
    ELSE 0

\* Lines 373-406.
adjust_confidence_with_sentiment(confidence, kind, data) ==
    IF data.sentiment_confidence < 500 THEN confidence * Micro
    ELSE Min2(100 * Micro, Max2(0, confidence * Micro + adjustment(kind, data.sentiment_score, data.sentiment_confidence)))

BlendIdle ==
    /\ blend_pc = "idle"
    /\ news_fetch_ok = TRUE
    /\ news_count = 0
    /\ sentiment_signals = << >>
    /\ sentiment_data = NoSentiment(0)
    /\ technical_confidence = 0
    /\ technical_signal_type = "NEUTRAL"
    /\ adjusted_confidence = 0

\* Lines 276-371: the news of a ticker are fetched, analyzed and aggregated.
AnalyzeSentimentForTicker ==
    /\ blend_pc = "fetching"
    /\ blend_pc' = "aggregated"
    /\ sentiment_data' = analyze_sentiment_for_ticker(news_fetch_ok, news_count, sentiment_signals)
    /\ UNCHANGED <<news_fetch_ok, news_count, sentiment_signals, technical_confidence, technical_signal_type, adjusted_confidence>>
    /\ UNCHANGED <<sigvars, scrvars, projvars, sentvars, cycvars, loopvars>>

\* Lines 373-406.
AdjustConfidenceWithSentiment ==
    /\ blend_pc = "adjusting"
    /\ blend_pc' = "adjusted"
    /\ adjusted_confidence' = adjust_confidence_with_sentiment(technical_confidence, technical_signal_type, sentiment_data)
    /\ UNCHANGED <<news_fetch_ok, news_count, sentiment_signals, sentiment_data, technical_confidence, technical_signal_type>>
    /\ UNCHANGED <<sigvars, scrvars, projvars, sentvars, cycvars, loopvars>>

(***************************************************************************)
(* Signal detector as a state machine: the data source delivers bars, then *)
(* analyze_single_stock is applied to the table.                           *)
(***************************************************************************)
SigIdle ==
    /\ df = << >>
    /\ ind = NoIndicators
    /\ analysis = NotAnalyzed
    /\ candles = NoCandles

SigInit == SigIdle /\ ScrIdle /\ ProjIdle /\ BlendIdle /\ SentIdle /\ CycIdle /\ LoopIdle

FetchBar ==
    /\ analysis.primary_signal = "pending"
    /\ Len(df) < MaxBars
    /\ \E b \in BarShapes : df' = Append(df, b)
    /\ UNCHANGED <<ind, analysis, candles, scrvars, projvars, sentvars, cycvars, loopvars, blendvars>>

AnalyzeSingleStock ==
    /\ analysis.primary_signal = "pending"
    /\ Len(df) >= 1
    /\ \E x \in Indicators :
          /\ ind' = x
          /\ analysis' = analyze_single_stock(df, x)
    /\ UNCHANGED <<df, candles, scrvars, projvars, sentvars, cycvars, loopvars, blendvars>>

SigNext == FetchBar \/ AnalyzeSingleStock

SpecSignal == SigInit /\ [][SigNext]_vars

(***************************************************************************)
(* The two cases on the tail of a long table: the row before the last is   *)
(* any row an earlier part of the table can leave behind, the last row is  *)
(* computed from it and from any raw bar with Low <= Open, Close <= High.  *)
(***************************************************************************)
CalculateCandles ==
    /\ candles = NoCandles
    /\ \E prev \in PrevRows : \E bar \in ValidBars :
          candles' = [ rows |-> << HeikinAshiRow(bar, FALSE, prev), prev >>,
                       close |-> bar.Close ]
    /\ UNCHANGED <<df, ind, analysis, scrvars, projvars, sentvars, cycvars, loopvars, blendvars>>

AnalyzeCandles ==
    /\ candles # NoCandles
    /\ analysis.primary_signal = "pending"
    /\ \E x \in Indicators :
          /\ ind' = x
          /\ analysis' = analyze_candles(candles.rows, candles.close, x)
    /\ UNCHANGED <<df, candles, scrvars, projvars, sentvars, cycvars, loopvars, blendvars>>

CandleNext == CalculateCandles \/ AnalyzeCandles

SpecCandle == SigInit /\ [][CandleNext]_vars

ScrInit == SigIdle /\ ScrIdle /\ ProjIdle /\ BlendIdle /\ SentIdle /\ CycIdle /\ LoopIdle

ScrNext == ScreenSingleStock

SpecScreen == ScrInit /\ [][ScrNext]_vars

ProjInit == SigIdle /\ ScrIdle /\ ProjIdle /\ BlendIdle /\ SentIdle /\ CycIdle /\ LoopIdle

ProjNext == CalculateAdvancedPredictions

SpecProjector == ProjInit /\ [][ProjNext]_vars

\* The analyzer before a call: idle, with what earlier calls left cached.
SentInit ==
    /\ SigIdle /\ ScrIdle /\ ProjIdle /\ BlendIdle /\ CycIdle /\ LoopIdle
    /\ texts = << >>
    /\ task_pc = << >>
    /\ task_result = << >>
    /\ semaphore = 0
    /\ analysis_cache \in CacheStates
    /\ llm_calls = [t \in Texts |-> 0]
    /\ batch_pc = "idle"
    /\ llm_parses \in BOOLEAN
    /\ textblob_ok \in BOOLEAN
    /\ returned = << >>

SentNext ==
    \/ AnalyzeBatch
    \/ \E i \in DOMAIN task_pc : TaskAcquire(i)
    \/ \E i \in DOMAIN task_pc : LLMAnswers(i)
    \/ \E i \in DOMAIN task_pc : LLMFails(i)
    \/ GatherReturns

SpecSentiment == SentInit /\ [][SentNext]_vars

\* The event loop runs every ready task, and every classifier call ends
\* (it answers, raises, or hits its 30 s timeout).
LiveSentiment == SpecSentiment /\ WF_vars(SentNext)

\* One call of the cycle of one scheduler.
CycInit ==
    /\ SigIdle /\ ScrIdle /\ ProjIdle /\ BlendIdle /\ SentIdle
    /\ tickers = << >>
    /\ cycle_pc = "idle"
    /\ batch_start = 0
    /\ batch_predictions = << >>
    /\ save_idx = 0
    /\ signal_predictions = << >>
    /\ outcomes = [t \in TickerIds |-> "unseen"]
    /\ writes = [t \in TickerIds |-> "none"]
    /\ scheduler \in Schedulers
    /\ stocks \in Universes
    /\ running = TRUE
    /\ loop_pc = "in_cycle"
    /\ cycle_raised = FALSE
    /\ elapsed = -1
    /\ sleep_time = -1
    /\ start_gap = -1
    /\ cycles_started = 1
    /\ db_pool_open = TRUE

CycNext ==
    \/ StartCycle
    \/ \E k \in DOMAIN batch_predictions : AnalyzeTicker(k)
    \/ \E k \in DOMAIN batch_predictions : AnalyzeAndSaveTicker(k)
    \/ GatherPredictions
    \/ GatherSaved
    \/ SavePrediction
    \/ BatchSaved
    \/ NextBatch
    \/ RunAdvancedScreening
    \/ AnalyzeWithHeikinAshi
    \/ PredictionsSaved

SpecCycle == CycInit /\ [][CycNext]_vars

\* Every external call of the cycle (yfinance, screener, database) ends,
\* and the event loop resumes the cycle after each of them.
LiveCycle == SpecCycle /\ WF_vars(CycNext)

\* One cycle of SignalPredictionScheduler, from the query of the stocks
\* table on: the table is empty or holds distinct tickers.
UniverseInit ==
    /\ SigIdle /\ ScrIdle /\ ProjIdle /\ BlendIdle /\ SentIdle
    /\ tickers = << >>
    /\ cycle_pc = "idle"
    /\ batch_start = 0
    /\ batch_predictions = << >>
    /\ save_idx = 0
    /\ signal_predictions = << >>
    /\ outcomes = [t \in TickerIds |-> "unseen"]
    /\ writes = [t \in TickerIds |-> "none"]
    /\ scheduler = "signal"
    /\ stocks \in StocksTables
    /\ running = TRUE
    /\ loop_pc = "in_cycle"
    /\ cycle_raised = FALSE
    /\ elapsed = -1
    /\ sleep_time = -1
    /\ start_gap = -1
    /\ cycles_started = 1
    /\ db_pool_open = TRUE

UniverseNext ==
    \/ StartPredictionCycle
    \/ \E k \in DOMAIN batch_predictions : AnalyzeTicker(k)
    \/ GatherPredictions
    \/ SavePrediction
    \/ BatchSaved
    \/ NextBatch

SpecUniverse == UniverseInit /\ [][UniverseNext]_vars

\* One call of analyze_sentiment_for_ticker: the fetch fails or delivers
\* up to MaxSignals items, of which the analyzer returns signals.
AggInit ==
    /\ SigIdle /\ ScrIdle /\ ProjIdle /\ SentIdle /\ CycIdle /\ LoopIdle
    /\ blend_pc = "fetching"
    /\ news_fetch_ok \in BOOLEAN
    /\ news_count \in 0..MaxSignals
    /\ sentiment_signals \in SignalBatches(news_count)
    /\ sentiment_data = NoSentiment(0)
    /\ technical_confidence = 0
    /\ technical_signal_type = "NEUTRAL"
    /\ adjusted_confidence = 0

AggNext == AnalyzeSentimentForTicker

SpecAggregate == AggInit /\ [][AggNext]_vars

\* One call of adjust_confidence_with_sentiment.
AdjInit ==
    /\ SigIdle /\ ScrIdle /\ ProjIdle /\ SentIdle /\ CycIdle /\ LoopIdle
    /\ blend_pc = "adjusting"
    /\ news_fetch_ok = TRUE
    /\ news_count = 1
    /\ sentiment_signals = << >>
    /\ \E score \in ScoreInputs, conf \in ConfidenceInputs :
          sentiment_data = SentimentData(score, conf, "negligible", 0, 1)
    /\ technical_confidence \in TechnicalConfidences
    /\ technical_signal_type \in SignalTypes
    /\ adjusted_confidence = 0

AdjNext == AdjustConfidenceWithSentiment

SpecAdjust == AdjInit /\ [][AdjNext]_vars

\* A scheduler from construction on, over a short list of tickers.
LoopInit ==
    /\ SigIdle /\ ScrIdle /\ ProjIdle /\ BlendIdle /\ SentIdle /\ LoopIdle
    /\ tickers = << >>
    /\ cycle_pc = "idle"
    /\ batch_start = 0
    /\ batch_predictions = << >>
    /\ save_idx = 0
    /\ signal_predictions = << >>
    /\ outcomes = [t \in TickerIds |-> "unseen"]
    /\ writes = [t \in TickerIds |-> "none"]
    /\ scheduler \in Schedulers
    /\ stocks \in LoopUniverses

\* The steps of the scheduler itself.
LoopProgramNext ==
    \/ Start
    \/ CheckRunning
    \/ CycleReturns
    \/ WakeUp
    \/ CycNext

LoopNext ==
    \/ LoopProgramNext
    \/ CycleRaises
    \/ Stop

SpecLoop == LoopInit /\ [][LoopNext]_vars

\* The event loop resumes the scheduler after every sleep and every
\* external call, and each of them ends.
LiveLoop == SpecLoop /\ WF_vars(LoopProgramNext)

(***************************************************************************)
(* Properties of the signal detector and the Heikin Ashi transform         *)
(***************************************************************************)
Analyzed == analysis.primary_signal # "pending" /\ ~analysis.error

\* C2: for a table of at least 5 bars, the confidence reported by
\* is_bullish_signal and the one reported by is_bearish_signal both lie in
\* [0, 100].
C2_ConfidenceWithin0And100 ==
    (Analyzed /\ Len(df) >= 5) =>
        /\ analysis.bullish_analysis.confidence \in 0..100
        /\ analysis.bearish_analysis.confidence \in 0..100

\* C3: a case triggers exactly when its confidence reaches 40; one triggered
\* case is the primary signal with its confidence; of two triggered cases
\* with different confidences the strictly higher one is primary; with no
\* triggered case the primary signal is NEUTRAL with confidence 0.
C3_PrimaryResolution ==
    Analyzed =>
        LET b == analysis.bullish_analysis
            s == analysis.bearish_analysis
        IN  /\ (Len(df) >= 5 => (b.signal <=> b.confidence >= 40))
            /\ (Len(df) >= 5 => (s.signal <=> s.confidence >= 40))
            /\ (b.signal /\ ~s.signal) =>
                  /\ analysis.primary_signal = "BULLISH"
                  /\ analysis.primary_confidence = b.confidence
            /\ (s.signal /\ ~b.signal) =>
                  /\ analysis.primary_signal = "BEARISH"
                  /\ analysis.primary_confidence = s.confidence
            /\ (b.signal /\ s.signal /\ b.confidence > s.confidence) =>
                  /\ analysis.primary_signal = "BULLISH"
                  /\ analysis.primary_confidence = b.confidence
            /\ (b.signal /\ s.signal /\ s.confidence > b.confidence) =>
                  /\ analysis.primary_signal = "BEARISH"
                  /\ analysis.primary_confidence = s.confidence
            /\ (~b.signal /\ ~s.signal) =>
                  /\ analysis.primary_signal = "NEUTRAL"
                  /\ analysis.primary_confidence = 0

\* C3 witness: both cases trigger, the bullish one with the higher
\* confidence, and analyze_single_stock has answered.
C3_BothTriggeredBullishHigher ==
    /\ Analyzed
    /\ analysis.bullish_analysis.signal
    /\ analysis.bearish_analysis.signal
    /\ analysis.bullish_analysis.confidence > analysis.bearish_analysis.confidence

BothTriggeredEqual ==
    /\ Analyzed
    /\ analysis.bullish_analysis.signal
    /\ analysis.bearish_analysis.signal
    /\ analysis.bullish_analysis.confidence = analysis.bearish_analysis.confidence

\* C4 as stated: on an exact tie of two triggered cases the primary signal
\* is the first-evaluated case, BULLISH.
C4_TieIsBullish == BothTriggeredEqual => analysis.primary_signal = "BULLISH"

\* C4 amended: on an exact tie of two triggered cases the primary signal is
\* BEARISH, the second-evaluated case, with the common confidence.
C4_TieIsBearish ==
    BothTriggeredEqual =>
        /\ analysis.primary_signal = "BEARISH"
        /\ analysis.primary_confidence = analysis.bearish_analysis.confidence
        /\ analysis.primary_reasons = analysis.bearish_analysis.reasons

\* C4 witness: a tie of two triggered cases has been resolved.
C4_TieResolved == BothTriggeredEqual /\ analysis.primary_signal \in {"BULLISH", "BEARISH"}

\* C7: in every row of the Heikin Ashi table of a table of positive bars,
\* HA_Low <= min(HA_Open, HA_Close) <= max(HA_Open, HA_Close) <= HA_High,
\* with HA_Open[0] = (Open[0] + Close[0]) / 2 and
\* HA_Open[i] = (HA_Open[i-1] + HA_Close[i-1]) / 2.
C7_HeikinAshiInvariant ==
    LET ha == calculate_heikin_ashi(df)
    IN  \A i \in 1..Len(df) :
            /\ ha[i].HA_Low <= Min2(ha[i].HA_Open, ha[i].HA_Close)
            /\ Min2(ha[i].HA_Open, ha[i].HA_Close) <= Max2(ha[i].HA_Open, ha[i].HA_Close)
            /\ Max2(ha[i].HA_Open, ha[i].HA_Close) <= ha[i].HA_High
            /\ i = 1 => 2 * ha[i].HA_Open = (df[1].Open + df[1].Close) * Scale
            /\ i > 1 => 2 * ha[i].HA_Open = ha[i - 1].HA_Open + ha[i - 1].HA_Close

\* C7 witness: a derived open above the raw high and a derived open below
\* the raw low, so that ordering the row needs the derived values.
C7_OpenOutsideRawRange ==
    LET ha == calculate_heikin_ashi(df)
    IN  /\ \E i \in 1..Len(df) : ha[i].HA_Open > df[i].High * Scale
        /\ \E i \in 1..Len(df) : ha[i].HA_Open < df[i].Low * Scale

(***************************************************************************)
(* Properties of the screening scorer                                      *)
(***************************************************************************)
Screened == screening # << >>

\* C5: for every latest row (indicators possibly NaN) and every
\* fundamentals record, calculate_screening_score returns a score in
\* [0, 100] that equals the sum of its five components.
C5_ScoreInRangeAndSum ==
    (Screened /\ screen_df # << >>) =>
        /\ score_data.score \in 0..100
        /\ DOMAIN score_data.components = ComponentNames
        /\ score_data.score =
              score_data.components["ema_stack"]
              + score_data.components["momentum"]
              + score_data.components["volume"]
              + score_data.components["fundamental"]
              + score_data.components["technical"]

\* C5 witness: every component is at its maximum and the score is 95.
C5_AllComponentsMaximal ==
    /\ Screened /\ screen_df # << >>
    /\ score_data.components["ema_stack"] = 30
    /\ score_data.components["momentum"] = 25
    /\ score_data.components["volume"] = 15
    /\ score_data.components["fundamental"] = 15
    /\ score_data.components["technical"] = 10

\* The four gates as the design states them, over the inputs.
GateEma ==
    LET e == screen_df[1].EMA
    IN  \A i \in 1..5 : e[i] # {} /\ e[i + 1] # {} /\
            (\A x \in e[i] : \A y \in e[i + 1] : x > y)
GateMomentum ==
    /\ \E a \in screen_df[1].ADX : a > 20
    /\ \E k \in screen_df[1].Stoch_K : k < 40
    /\ \E r \in screen_df[1].RSI : 30 <= r /\ r <= 70
GateVolume == \E v \in screen_df[1].Volume_Ratio : v > 10
GateFundamental ==
    stock_info.market_cap > 100000 /\ stock_info.avg_volume > 1000000

\* C6: overall_pass is true exactly when the four gates (EMA stack,
\* momentum, volume, fundamental) all pass, whatever the score.
C6_OverallPassIsAllGates ==
    (Screened /\ ~screening[1].none) =>
        /\ screening[1].overall_pass <=>
              (GateEma /\ GateMomentum /\ GateVolume /\ GateFundamental)
        /\ screening[1].screening_score = score_data.score

\* C6 witness: a result whose score is at least 90 while one gate fails,
\* with overall_pass False.
C6_HighScoreGateFails ==
    /\ Screened /\ ~screening[1].none
    /\ screening[1].screening_score >= 90
    /\ ~screening[1].passes_fundamental
    /\ screening[1].passes_ema_stack /\ screening[1].passes_volume
    /\ screening[1].passes_momentum
    /\ ~screening[1].overall_pass

(***************************************************************************)
(* Properties of the price projector                                       *)
(***************************************************************************)
WithinThreeATR(price) ==
    \A v \in price :
        /\ proj_in[1].current_price - 3 * proj_in[1].atr <= v
        /\ v <= proj_in[1].current_price + 3 * proj_in[1].atr

\* C8: each of price_1h, price_1d and price_1w returned by
\* calculate_advanced_predictions lies in
\* [current_price - 3*ATR, current_price + 3*ATR].
C8_PricesWithinThreeATR ==
    (proj_in # << >>) =>
        /\ WithinThreeATR(predictions.price_1h)
        /\ WithinThreeATR(predictions.price_1d)
        /\ WithinThreeATR(predictions.price_1w)

(***************************************************************************)
(* Sentiment batch properties.                                             *)
(***************************************************************************)
Degraded(signal) == signal.kind \in {"fallback", "neutral"}

\* C9: when analyze_batch returns, it returns exactly one signal per input
\* text, in input order, none of them an exception, and the signal of every
\* text whose classifier call raised or timed out is a degraded one.
C9_OneSignalPerText ==
    batch_pc = "returned" =>
        /\ Len(returned) = Len(texts)
        /\ \A i \in DOMAIN texts :
              /\ i \in DOMAIN returned
              /\ returned[i].text = texts[i]
              /\ returned[i].kind # "exception"
              /\ (task_pc[i] = "failed" => Degraded(returned[i]))

C9_BatchWithFailuresReturned ==
    /\ batch_pc = "returned"
    /\ Len(texts) = MaxTexts
    /\ Len(returned) = MaxTexts
    /\ \E i \in DOMAIN texts : task_pc[i] = "failed"
    /\ \E i \in DOMAIN texts : task_pc[i] = "answered"

\* C10: at most 5 classifier calls are in flight at any moment, and every
\* call of analyze_batch leads to its return with every task finished.
C10_BoundedAndEventuallyAnalyzed ==
    /\ [](Cardinality(InFlight) <= 5)
    /\ (batch_pc = "gathering") ~> (batch_pc = "returned" /\ \A i \in DOMAIN texts : Finished(i))

C10_TaskWaitsOnLimiter ==
    /\ Cardinality(InFlight) = 5
    /\ \E i \in DOMAIN task_pc : task_pc[i] = "ready"


(***************************************************************************)
(* Prediction cycle properties.                                            *)
(***************************************************************************)
Universe == { tickers[j] : j \in DOMAIN tickers }

\* The tickers whose pipeline failed: no bars, or an exception at a stage.
FailedTickers == { t \in Universe : outcomes[t] \in {"no_bars", "exception"} }

RecordsOf(t) == Cardinality({ j \in DOMAIN signal_predictions : signal_predictions[j] = t })

\* C1: whatever tickers fail, the cycle reaches its end having analyzed
\* every ticker of every batch; the table holds exactly one record for each
\* ticker outside the failing set whose write succeeded and none for a
\* failing ticker; a universe of N tickers, one of them failing and the
\* other writes succeeding, ends with N-1 records.
C1_TickerIsolation ==
    /\ [](\A t \in TickerIds :
            /\ (t \in FailedTickers => RecordsOf(t) = 0)
            /\ (t \in Universe \ FailedTickers /\ writes[t] = "ok" => RecordsOf(t) = 1)
            /\ (writes[t] # "ok" => RecordsOf(t) = 0))
    /\ [](cycle_pc = "completed" =>
            /\ \A t \in Universe : outcomes[t] # "unseen"
            /\ ((Cardinality(FailedTickers) = 1 /\ \A t \in Universe \ FailedTickers : writes[t] = "ok")
                   => Len(signal_predictions) = Len(tickers) - 1))
    /\ (cycle_pc = "analyzing") ~> (cycle_pc = "completed")

C1_OneFailureInTwoBatches ==
    /\ cycle_pc = "completed"
    /\ Len(tickers) = MaxTickers
    /\ Cardinality(FailedTickers) = 1
    /\ outcomes[2] = "exception"
    /\ Len(signal_predictions) = MaxTickers - 1

(***************************************************************************)
(* Scheduler loop properties.                                              *)
(***************************************************************************)
\* C11: an unexpected exception raised while a cycle runs does not end the
\* loop, and the sleep that follows it is the 60-second backoff, not the
\* regular sleep between cycles.
C11_BackoffAfterCycleException ==
    cycle_raised =>
        /\ (loop_pc = "returned" => ~LoopContinues)
        /\ (loop_pc \in {"sleeping", "backoff"} =>
               loop_pc = "backoff" /\ sleep_time = BackoffSeconds)

\* C12: the sleep after a cycle is never negative, it fills the cycle up to
\* 300 seconds when the cycle took at most 300 seconds and is 0 when the
\* cycle took longer; so the start of the next cycle is 300 seconds after
\* the start of a cycle that took at most 300 seconds, and immediate after
\* a longer one.
C12_Cadence ==
    /\ [](loop_pc = "sleeping" =>
            /\ sleep_time >= 0
            /\ (elapsed <= 300 => elapsed + sleep_time = 300)
            /\ (elapsed > 300 => sleep_time = 0))
    /\ [][(loop_pc = "check_running" /\ loop_pc' = "in_cycle" /\ cycles_started >= 1
             /\ ~(scheduler = "simple" /\ cycle_raised))
            => /\ (elapsed <= 300 => start_gap' = 300)
               /\ (elapsed > 300 => start_gap' = elapsed)]_vars

C12_NextCycleStartsImmediately ==
    /\ loop_pc = "in_cycle"
    /\ cycles_started = 2
    /\ elapsed = 450
    /\ sleep_time = 0
    /\ start_gap = 450

(***************************************************************************)
(* Cycle structure and persistence properties.                             *)
(***************************************************************************)
\* The tickers whose pipeline has started and not yet ended.
InFlightTickers ==
    { batch(tickers, batch_start)[k] : k \in { j \in DOMAIN batch_predictions : batch_predictions[j] = Pending } }

PositionOf(t) == CHOOSE i \in DOMAIN tickers : tickers[i] = t

GroupOf(i) == (i - 1) \div 5

PipelineEnded(t) == outcomes[t] # "unseen"

\* C13: the universe is processed in consecutive groups of at most 5: the
\* tickers in flight all belong to one group, every ticker of an earlier
\* group has finished and no ticker of a later group has started, so at
\* most 5 pipelines are in flight.
C13_BatchesSequential ==
    /\ Cardinality(InFlightTickers) <= 5
    /\ \A t \in InFlightTickers :
          /\ t \in Universe
          /\ ~PipelineEnded(t)
          /\ \A u \in InFlightTickers : GroupOf(PositionOf(u)) = GroupOf(PositionOf(t))
          /\ \A j \in DOMAIN tickers :
                /\ (GroupOf(j) < GroupOf(PositionOf(t)) => PipelineEnded(tickers[j]))
                /\ (GroupOf(j) > GroupOf(PositionOf(t)) => ~PipelineEnded(tickers[j]))

C13_SecondGroupInFlight ==
    /\ scheduler = "simple"
    /\ batch_start = BatchSize
    /\ InFlightTickers # {}
    /\ \A j \in 1..BatchSize : PipelineEnded(tickers[j])

\* A successful prediction that is held back: its pipeline has ended, its
\* write has not been attempted, and the scheduler is still waiting for the
\* pipeline of another ticker (in flight in the batch, or not yet analyzed
\* in the sequential cycle).
HeldBack(t) ==
    /\ outcomes[t] = "ok"
    /\ writes[t] = "none"
    /\ cycle_pc = "analyzing"
    /\ \E u \in Universe \ {t} : ~PipelineEnded(u) /\ (scheduler = "advanced" \/ u \in InFlightTickers)

\* C14 as claimed: the write of a successful ticker's record never waits
\* for the pipeline of another ticker.
C14_WriteDoesNotWait == \A t \in TickerIds : ~HeldBack(t)

\* C14 as amended: SimpleScheduler writes a record in the ticker's own
\* task; SignalPredictionScheduler writes the records of a batch once every
\* pipeline of that batch has ended and before the next batch starts;
\* AdvancedPredictionScheduler writes once every candidate is analyzed;
\* when the cycle ends every successful ticker's write has been attempted.
C14_WritesAfterOwnBatch ==
    /\ scheduler = "simple" => \A t \in Universe : outcomes[t] = "ok" => writes[t] # "none"
    /\ scheduler = "signal" =>
          /\ \A t \in Universe : writes[t] # "none" =>
                \A j \in DOMAIN tickers :
                    GroupOf(j) = GroupOf(PositionOf(t)) => PipelineEnded(tickers[j])
          /\ \A t \in InFlightTickers : \A j \in DOMAIN tickers :
                (GroupOf(j) < GroupOf(PositionOf(t)) /\ outcomes[tickers[j]] = "ok")
                    => writes[tickers[j]] # "none"
    /\ scheduler = "advanced" =>
          \A t \in Universe : writes[t] # "none" => \A u \in Universe : PipelineEnded(u)
    /\ cycle_pc = "completed" => \A t \in Universe : outcomes[t] = "ok" => writes[t] # "none"

C14_BatchWrittenBeforeNextStarts ==
    /\ scheduler = "signal"
    /\ batch_start = BatchSize
    /\ InFlightTickers # {}
    /\ writes[1] = "ok"
    /\ writes[BatchSize] = "ok"

RecordsIn(table, t) == Cardinality({ j \in DOMAIN table : table[j] = t })

\* C15: a failed write is not retried and its record never appears; the
\* write of a ticker is attempted at most once in a cycle; the cycle goes on
\* to analyze every remaining ticker and to attempt the write of every
\* successful one.
C15_WriteFailureContained ==
    /\ [](\A t \in TickerIds : writes[t] = "failed" => RecordsOf(t) = 0)
    /\ [][\A t \in TickerIds : writes[t] # "none" =>
             /\ writes'[t] = writes[t]
             /\ RecordsIn(signal_predictions', t) = RecordsIn(signal_predictions, t)]_vars
    /\ [](cycle_pc = "completed" =>
             \A t \in Universe : PipelineEnded(t) /\ (outcomes[t] = "ok" => writes[t] # "none"))

C15_WrittenAfterFailedWrite ==
    /\ scheduler = "signal"
    /\ cycle_pc = "completed"
    /\ Len(tickers) = MaxTickers
    /\ writes[1] = "failed"
    /\ \A t \in Universe \ {1} : writes[t] = "ok"
    /\ Len(signal_predictions) = MaxTickers - 1

\* C16: the table only grows at its end: no row is changed or removed, and
\* every successful write adds one row for its ticker, so a ticker written
\* in two cycles has two rows.
C16_AppendOnly ==
    /\ [][/\ Len(signal_predictions') >= Len(signal_predictions)
          /\ \A j \in DOMAIN signal_predictions : signal_predictions'[j] = signal_predictions[j]]_vars
    /\ [][\A t \in TickerIds : (writes[t] # "ok" /\ writes'[t] = "ok") =>
             RecordsIn(signal_predictions', t) = RecordsIn(signal_predictions, t) + 1]_vars

C16_TwoRecordsAfterTwoCycles ==
    /\ cycles_started = 2
    /\ writes[1] = "ok"
    /\ RecordsOf(1) = 2

\* C17: once the flag is down no further cycle starts; the cycle in
\* progress runs to its end; the loop is left and start returns; no row of
\* the table is removed.
C17_StopBetweenCycles ==
    /\ [][(~running /\ loop_pc \notin {"not_started", "start_failed"} /\ scheduler # "simple")
             => cycles_started' = cycles_started]_vars
    /\ [][\A j \in DOMAIN signal_predictions :
             j \in DOMAIN signal_predictions' /\ signal_predictions'[j] = signal_predictions[j]]_vars
    /\ (~running /\ loop_pc = "in_cycle" /\ scheduler # "simple") ~> (cycle_pc = "completed")
    /\ (~running /\ loop_pc \notin {"not_started", "start_failed"} /\ scheduler # "simple")
           ~> (loop_pc = "returned")

C17_StoppedInsideCycle ==
    /\ scheduler = "signal"
    /\ ~running
    /\ loop_pc = "in_cycle"
    /\ cycle_pc = "analyzing"
    /\ cycles_started = 1

(***************************************************************************)
(* Sentiment blending properties.                                          *)
(***************************************************************************)
Change == adjusted_confidence - technical_confidence * Micro

Agrees ==
    \/ technical_signal_type = "BULLISH" /\ sentiment_data.sentiment_score > 0
    \/ technical_signal_type = "BEARISH" /\ sentiment_data.sentiment_score < 0

Opposes ==
    \/ technical_signal_type = "BULLISH" /\ sentiment_data.sentiment_score < 0
    \/ technical_signal_type = "BEARISH" /\ sentiment_data.sentiment_score > 0

NoAdjustmentCase ==
    \/ sentiment_data.sentiment_confidence < 500
    \/ technical_signal_type = "NEUTRAL"
    \/ Abs(sentiment_data.sentiment_score) <= 200 /\ ~Agrees

\* C18: a technical confidence in [0, 100] comes back unchanged when the
\* sentiment confidence is below 0.5, the signal is NEUTRAL or the
\* sentiment opposes by at most 0.2; otherwise the change is within
\* [-10, +15], not negative when the sentiment agrees and not positive when
\* it opposes; the result is within [0, 100].
C18_AdjustmentBounded ==
    blend_pc = "adjusted" =>
        /\ NoAdjustmentCase => Change = 0
        /\ Change >= -10 * Micro
        /\ Change <= 15 * Micro
        /\ Agrees => Change >= 0
        /\ Opposes => Change <= 0
        /\ adjusted_confidence >= 0
        /\ adjusted_confidence <= 100 * Micro

C18_BoostCappedAtFifteen ==
    /\ blend_pc = "adjusted"
    /\ technical_signal_type = "BEARISH"
    /\ sentiment_data.sentiment_score = -1000
    /\ sentiment_data.sentiment_confidence = 1000
    /\ technical_confidence = 50
    /\ Change = 15 * Micro

Aggregated ==
    /\ blend_pc = "aggregated"
    /\ news_fetch_ok
    /\ news_count > 0
    /\ sentiment_signals # << >>

SumC == SumValues([i \in DOMAIN sentiment_signals |-> sentiment_signals[i].confidence], DOMAIN sentiment_signals)

SumSC == SumValues([i \in DOMAIN sentiment_signals |-> sentiment_signals[i].sentiment_score * sentiment_signals[i].confidence], DOMAIN sentiment_signals)

SumCC == SumValues([i \in DOMAIN sentiment_signals |-> sentiment_signals[i].confidence * sentiment_signals[i].confidence], DOMAIN sentiment_signals)

BothZero == sentiment_data.sentiment_score = 0 /\ sentiment_data.sentiment_confidence = 0

\* C19 as claimed: the returned score is sum(s_i*c_i)/sum(c_i) and the
\* returned confidence sum(c_i*c_i)/sum(c_i); both are 0 for an empty batch
\* or a total weight of 0.
C19_ExactWeightedMeans ==
    blend_pc = "aggregated" =>
        IF Aggregated /\ SumC > 0
        THEN /\ sentiment_data.sentiment_score * SumC = 100 * SumSC
             /\ sentiment_data.sentiment_confidence * SumC = 100 * SumCC
        ELSE BothZero

\* C19 as amended: the returned score and confidence are these two
\* quotients rounded to three decimals; both are 0 for an empty batch or a
\* total weight of 0.
C19_RoundedWeightedMeans ==
    blend_pc = "aggregated" =>
        IF Aggregated /\ SumC > 0
        THEN /\ 2 * Abs(sentiment_data.sentiment_score * SumC - 100 * SumSC) <= SumC
             /\ 2 * Abs(sentiment_data.sentiment_confidence * SumC - 100 * SumCC) <= SumC
        ELSE BothZero

C19_ThirdRoundedDown ==
    /\ Aggregated
    /\ sentiment_signals = <<SentimentSignal(10, 3), SentimentSignal(0, 6)>>
    /\ sentiment_data.sentiment_score = 333
    /\ sentiment_data.sentiment_confidence = 500

\* C20 as claimed: the signal of every text whose classifier call failed
\* carries confidence 0.3, whatever the fallback path did.
C20_FallbackConfidenceFixed ==
    \A i \in DOMAIN task_pc :
        task_pc[i] = "failed" =>
            /\ task_result[i].confidence = 3
            /\ (batch_pc = "returned" => returned[i].confidence = 3)

\* C20 as amended: the signal of every text whose classifier call failed
\* carries confidence 0.3 when the lexicon scoring of the fallback works,
\* and is the neutral signal with confidence 0.1 when that scoring raises.
C20_FallbackConfidenceByPath ==
    \A i \in DOMAIN task_pc :
        task_pc[i] = "failed" =>
            /\ task_result[i].kind = (IF textblob_ok THEN "fallback" ELSE "neutral")
            /\ task_result[i].confidence = (IF textblob_ok THEN 3 ELSE 1)
            /\ (batch_pc = "returned" => returned[i] = task_result[i])

C20_LastResortSignalReturned ==
    /\ batch_pc = "returned"
    /\ ~textblob_ok
    /\ \E i \in DOMAIN task_pc : task_pc[i] = "failed" /\ returned[i].confidence = 1
    /\ \E i \in DOMAIN task_pc : task_pc[i] = "answered"

(***************************************************************************)
(* Streak counter properties.                                              *)
(***************************************************************************)
SameDirection(a, b) ==
    \/ a.HA_Bullish /\ b.HA_Bullish
    \/ a.HA_Bearish /\ b.HA_Bearish

\* Number of consecutive rows ending at row i that point the way row i does.
RECURSIVE StreakLength(_, _)
StreakLength(ha, i) ==
    IF ~(ha[i].HA_Bullish \/ ha[i].HA_Bearish) THEN 0
    ELSE IF i = 1 THEN 1
    ELSE IF SameDirection(ha[i - 1], ha[i]) THEN StreakLength(ha, i - 1) + 1
    ELSE 1

\* C21: in every row of the Heikin Ashi table, HA_Trend_Strength is
\* positive exactly when the row is bullish, negative exactly when it is
\* bearish, 0 when it is neither, and its magnitude is the number of
\* consecutive same-direction rows ending at it, a streak that starts at
\* the first row included.
C21_StreakCounter ==
    LET ha == calculate_heikin_ashi(df)
    IN  \A i \in 1..Len(df) :
            /\ ha[i].HA_Trend_Strength > 0 <=> ha[i].HA_Bullish
            /\ ha[i].HA_Trend_Strength < 0 <=> ha[i].HA_Bearish
            /\ Abs(ha[i].HA_Trend_Strength) = StreakLength(ha, i)

(***************************************************************************)
(* Score and gates of the screener.                                        *)
(***************************************************************************)
ScoreFor(row, info) == calculate_screening_score(<< row >>, info).score

PassFor(row, info) == screen_single_stock(<< row >>, info).overall_pass

\* C22: the maximum screening score over all inputs is 100, i.e. some
\* latest row and fundamentals record score 100.
C22_SomeInputScores100 ==
    Screened =>
        /\ score_data.score <= 100
        /\ \E row \in LatestRows : \E info \in StockInfos : ScoreFor(row, info) = 100

\* C23 as claimed: some input passes all four gates with a score below 70.
C23_PassWithLowScore ==
    Screened =>
        \E row \in LatestRows : \E info \in StockInfos :
            PassFor(row, info) /\ ScoreFor(row, info) < 70

\* C23 as amended: a ticker that passes all four gates has a score of at
\* least 80, so none of them is below the default min_score of 70.
C23_PassImpliesScoreAtLeast80 ==
    (Screened /\ ~screening[1].none /\ screening[1].overall_pass) =>
        /\ screening[1].screening_score >= 80
        /\ score_data.score >= 80

C23_MarginalPassScores80 ==
    /\ Screened /\ ~screening[1].none
    /\ screening[1].overall_pass
    /\ screening[1].screening_score = 80
    /\ screen_df[1].Volume_Ratio = Val(11)
    /\ screen_df[1].ADX = Val(21)

Component(name) ==
    IF name \in DOMAIN score_data.components THEN score_data.components[name] ELSE 0

\* C30: each gate passes exactly when its score component is at its gate
\* value (EMA stack 30, momentum 25, volume above 0, fundamental 15); a
\* missing indicator makes its gate fail and adds nothing, and the stock is
\* still screened.
C30_GatesAgreeWithComponents ==
    (Screened /\ screen_df # << >>) =>
        LET r == screening[1]
            latest == screen_df[1]
        IN  /\ ~r.none
            /\ r.passes_ema_stack <=> Component("ema_stack") = 30
            /\ r.passes_momentum <=> Component("momentum") = 25
            /\ r.passes_volume <=> Component("volume") > 0
            /\ r.passes_fundamental <=> Component("fundamental") = 15
            /\ (\E i \in 1..6 : latest.EMA[i] = NaN) =>
                  ~r.passes_ema_stack /\ Component("ema_stack") = 0
            /\ latest.ADX = NaN =>
                  ~r.passes_momentum /\ Component("momentum") <= 15 /\ Component("technical") <= 5
            /\ latest.Stoch_K = NaN =>
                  ~r.passes_momentum /\ Component("momentum") <= 17
            /\ latest.RSI = NaN =>
                  ~r.passes_momentum /\ Component("momentum") <= 18 /\ Component("technical") <= 5
            /\ (latest.ADX = NaN /\ latest.Stoch_K = NaN /\ latest.RSI = NaN) =>
                  Component("momentum") = 0 /\ Component("technical") = 0
            /\ latest.Volume_Ratio = NaN =>
                  ~r.passes_volume /\ Component("volume") = 0

C30_MissingADXFailsMomentum ==
    /\ Screened /\ screen_df # << >>
    /\ screen_df[1].ADX = NaN
    /\ screen_df[1].Stoch_K = Val(39)
    /\ screen_df[1].RSI = Val(40)
    /\ Component("momentum") = 15
    /\ Component("technical") = 5
    /\ ~screening[1].passes_momentum
    /\ screening[1].passes_ema_stack /\ screening[1].passes_volume /\ screening[1].passes_fundamental


(***************************************************************************)
(* C29: in every non-error result of analyze_single_stock the primary      *)
(* confidence is 0 exactly when the primary signal is NEUTRAL; a BULLISH   *)
(* or BEARISH primary signal carries a confidence in 40..100 that is the   *)
(* confidence of the corresponding case, and that case has signal = TRUE.  *)
(***************************************************************************)
PrimaryFrom(case) ==
    /\ analysis.primary_confidence \in 40..100
    /\ analysis.primary_confidence = case.confidence
    /\ case.signal

C29_PrimaryConfidence ==
    Analyzed =>
        /\ analysis.primary_signal \in {"BULLISH", "BEARISH", "NEUTRAL"}
        /\ (analysis.primary_confidence = 0 <=> analysis.primary_signal = "NEUTRAL")
        /\ (analysis.primary_signal = "BULLISH" => PrimaryFrom(analysis.bullish_analysis))
        /\ (analysis.primary_signal = "BEARISH" => PrimaryFrom(analysis.bearish_analysis))

\* A bearish primary signal at the threshold, next to a bullish case whose
\* confidence is not zero and did not become a signal.
C29_BearishAtThreshold ==
    /\ Analyzed
    /\ analysis.primary_signal = "BEARISH"
    /\ analysis.primary_confidence = 40
    /\ analysis.bearish_analysis.signal
    /\ ~analysis.bullish_analysis.signal
    /\ analysis.bullish_analysis.confidence # 0


(***************************************************************************)
(* C24: the additive sub-scores of a case can pass 100 before the cap:     *)
(* some input consistent with the candle geometry has a case whose         *)
(* reported confidence is exactly 100, the value the cap leaves of a sum   *)
(* above 100.                                                              *)
(***************************************************************************)
CandlesAnalyzed == candles # NoCandles /\ Analyzed

TailOf(prev, bar) == << HeikinAshiRow(bar, FALSE, prev), prev >>

ReportsFull(rows, close, x) ==
    \/ BullishFromTable(rows, close, x).confidence = 100
    \/ BearishFromTable(rows, close, x).confidence = 100

C24_SomeCaseReaches100 ==
    CandlesAnalyzed =>
        \E prev \in PrevRows : \E bar \in ValidBars : \E x \in Indicators :
            ReportsFull(TailOf(prev, bar), bar.Close, x)

\* C24, amended: the sub-scores of a case never sum to more than 100, so the
\* cap at 100 never changes a value: for every input consistent with the
\* candle geometry the bullish case reports at most 85 and the bearish case
\* at most 90, a hammer is never a bullish row and a shooting star never a
\* bearish row.
C24_SumsStayBelowCap ==
    CandlesAnalyzed =>
        /\ analysis.bullish_analysis.confidence <= 85
        /\ analysis.bearish_analysis.confidence <= 90
        /\ ~(candles.rows[1].HA_Hammer /\ candles.rows[1].HA_Bullish)
        /\ ~(candles.rows[1].HA_Shooting_Star /\ candles.rows[1].HA_Bearish)

\* The largest sum: a strong bearish candle in a streak of four, with an
\* overbought RSI, the price next to EMA21 and volume confirmation.
C24_LargestSumReached ==
    /\ CandlesAnalyzed
    /\ analysis.bearish_analysis.confidence = 90
    /\ analysis.bearish_analysis.signal_strength = "VERY_STRONG"
    /\ candles.rows[1].HA_Strong_Bear
    /\ candles.rows[1].HA_Trend_Strength = -4


(***************************************************************************)
(* C28: in each prediction cycle every ticker of the universe is analyzed  *)
(* exactly once and belongs to exactly one batch, whatever the size of the *)
(* universe, and the universe is never empty: when the query of the stocks *)
(* table fails or finds no rows, the universe is the default list.         *)
(***************************************************************************)
BatchStarts == { i \in 0..Len(tickers) : i % BatchSize = 0 /\ i < Len(tickers) }

BatchesHolding(t) ==
    { i \in BatchStarts : \E k \in DOMAIN batch(tickers, i) : batch(tickers, i)[k] = t }

\* The pipeline of the k-th ticker of the batch ends in this step.
TaskEnds(k) ==
    /\ k \in DOMAIN batch_predictions
    /\ k \in DOMAIN batch_predictions'
    /\ batch_predictions[k] = Pending
    /\ batch_predictions'[k] # Pending

C28_UniverseCoveredOnce ==
    /\ [](cycle_pc # "idle" =>
            /\ tickers # << >>
            /\ tickers \in {stocks, default_tickers}
            /\ (stocks = << >> => tickers = default_tickers)
            /\ \A t \in Universe : Cardinality(BatchesHolding(t)) = 1)
    /\ [](cycle_pc = "completed" => \A t \in Universe : PipelineEnded(t))
    /\ [][\A k \in 1..BatchSize :
            TaskEnds(k) => ~PipelineEnded(batch(tickers, batch_start)[k])]_vars

\* The query found no rows: the cycle ran over the default list, whose
\* size is not a multiple of 5, and analyzed each of its tickers.
C28_DefaultListCovered ==
    /\ stocks = << >>
    /\ cycle_pc = "completed"
    /\ tickers = default_tickers
    /\ Len(tickers) % BatchSize # 0
    /\ \A t \in Universe : PipelineEnded(t)
    /\ \A t \in TickerIds \ Universe : ~PipelineEnded(t)


(***************************************************************************)
(* C25: the classifier is called at most once per distinct text: a cached  *)
(* text causes no call, and a text that occurs several times in one batch  *)
(* causes one call only (a further call is counted only against a call of  *)
(* the same text that failed and so left nothing to reuse).                *)
(***************************************************************************)
FailedCalls(t) == Cardinality({ i \in DOMAIN task_pc : texts[i] = t /\ task_pc[i] = "failed" })

C25_OneCallPerText ==
    \A t \in Texts :
        /\ llm_calls[t] <= 1 + FailedCalls(t)
        /\ \A i \in InFlight : texts[i] = t => analysis_cache[t] = << >>

(***************************************************************************)
(* C26: every signal analyze_batch returns carries the ticker of the       *)
(* context of that call, whatever earlier calls left in the cache.         *)
(***************************************************************************)
C26_ReturnedCarryCallTicker ==
    batch_pc = "returned" => \A i \in DOMAIN returned : returned[i].ticker = CallTicker

(***************************************************************************)
(* C27: a fallback signal is never stored in analysis_cache: whatever a    *)
(* step puts into the cache is a signal parsed from the classifier's       *)
(* reply, so a text that ended in a fallback is not served from the cache. *)
(***************************************************************************)
C27_FallbackNeverCached ==
    [][\A t \in Texts :
          analysis_cache'[t] # analysis_cache[t] => analysis_cache'[t][1].kind = "llm"]_vars

=========================================================================
